---- MODULE Spec2Model ----
(***************************************************************************)
(* A model of ctok: the single-pass compiler (compiler.c), the bytecode    *)
(* virtual machine (vm.c), the object heap with its mark-sweep collector   *)
(* (object.c, memory.c) and the open-addressing hash table (table.c).      *)
(*                                                                         *)
(* Every C function is an operator that takes the world W (a record of the *)
(* program's global state: the VM struct, the C heap, the parser, the      *)
(* scanner, the chain of compiler states, stdout and stderr) and returns   *)
(* the world after the call.  Actions apply these operators to the state   *)
(* variables.  Pointers to heap objects are positive integers (indices of  *)
(* the sequence heap), 0 is NULL.  Heap addresses are never reused, so a   *)
(* freed object stays recognisable and a later dereference is recorded in  *)
(* the variable fault.                                                     *)
(***************************************************************************)
EXTENDS Integers, Sequences, FiniteSets, TLC

VARIABLES vm, heap, parser, scanner, current, out, err, pc, result, gclog, fault, runs, input,
          probe

vars == <<vm, heap, parser, scanner, current, out, err, pc, result, gclog, fault, runs, input,
          probe>>

(***************************************************************************)
(* Bounds of the model.                                                    *)
(***************************************************************************)
\* Number of interpret() calls on one VM in a behaviour.
MaxInterprets == 2
\* The collector may run at one growing allocation of a step: at the g-th,
\* for g in 1..MaxGcPoint (0: at none).
MaxGcPoint == 3

\* The declarations of locals, the constants and the arguments of the
\* longest sources of the limits
MaxLocals == 257

MaxConstants == 257

MaxArgs == 257

\* The offsets of the jumps and loop starts of the long chunks, and the
\* lengths of those chunks beyond the shortest one
MaxOffset == 4

JumpSlack == 12

\* The objects among the operands of valuesEqual
MaxObjects == 2

(***************************************************************************)
(* Small helpers.                                                          *)
(***************************************************************************)
\* The statements of a C body run in order.  Where the worlds after them are
\* W1, ..., Wn, the body is written <<W1, ..., Wn>>[n]: the value is Wn, and
\* the tuple has W1, ..., Wn computed one after the other, in this order.

RECURSIVE Call(_, _, _)

\* A function on 1..n as the sequence of its n values
SeqOf(f) == <<>> \o f

Max(a, b) == IF a > b THEN a ELSE b

Range(s) == {s[i] : i \in 1..Len(s)}

\* s with its element at position i (1-based) replaced by x.
SeqSet(s, i, x) == [s EXCEPT ![i] = x]

\* The first n elements of s.
Take(s, n) == SubSeq(s, 1, n)

(***************************************************************************)
(* Values (value.h).  A Value is nil, a boolean, a number or a reference   *)
(* to a heap object.                                                       *)
(***************************************************************************)
NIL_VAL == [t |-> "nil", v |-> 0]

BOOL_VAL(b) == [t |-> "bool", v |-> IF b THEN 1 ELSE 0]

NUMBER_VAL(n) == [t |-> "num", v |-> n]

OBJ_VAL(o) == [t |-> "obj", v |-> o]

IS_NIL(x) == x.t = "nil"

IS_BOOL(x) == x.t = "bool"

IS_NUMBER(x) == x.t = "num"

IS_OBJ(x) == x.t = "obj"

AS_BOOL(x) == x.v = 1

AS_NUMBER(x) == x.v

AS_OBJ(x) == x.v

\* The all-zero bit pattern of static storage: under NAN_BOXING the number 0.
ZeroValue == NUMBER_VAL(0)

valuesEqual(a, b) ==
    IF IS_NUMBER(a) /\ IS_NUMBER(b) THEN AS_NUMBER(a) = AS_NUMBER(b) ELSE a = b

isFalsey(x) == IS_NIL(x) \/ (IS_BOOL(x) /\ ~AS_BOOL(x))

(***************************************************************************)
(* FNV-1a (object.c hashString) on 32 bits.  A hash is kept as its two     *)
(* 16-bit halves <<hi, lo>>.                                               *)
(***************************************************************************)
\* Bit k of a, and the exclusive or of two bits
Bit(a, k) == (a \div k) % 2

XorBit(a, b, k) == k * ((Bit(a, k) + Bit(b, k)) % 2)

\* Bitwise exclusive or of two bytes
Xor8(a, b) ==
    ((XorBit(a, b, 1) + XorBit(a, b, 2)) + (XorBit(a, b, 4) + XorBit(a, b, 8)))
    + ((XorBit(a, b, 16) + XorBit(a, b, 32)) + (XorBit(a, b, 64) + XorBit(a, b, 128)))

\* hash ^= byte
HashXor(h, byte) == <<h[1], (h[2] - (h[2] % 256)) + Xor8(h[2] % 256, byte)>>

\* hash *= 16777619 (0x01000193 = 2^24 + 403), modulo 2^32
HashMul(h) ==
    LET lo == h[2] * 403
        hi == h[1] * 403 + (lo \div 65536) + (h[2] % 256) * 256
    IN  <<hi % 65536, lo % 65536>>

RECURSIVE hashRange(_, _, _, _)
\* The loop of hashString over key[i .. j], from the hash h
hashRange(h, key, i, j) ==
    IF i > j THEN h
    ELSE IF i = j THEN HashMul(HashXor(h, key[i]))
    ELSE LET h1 == hashRange(h, key, i, (i + j) \div 2)
         IN  <<h1, hashRange(h1, key, ((i + j) \div 2) + 1, j)>>[2]

\* 2166136261 = 0x811C9DC5
hashString(key) == hashRange(<<33052, 40389>>, key, 1, Len(key))

\* hash & (capacity - 1), for a capacity that is a power of two up to 2^16
HashIndex(h, capacity) == h[2] % capacity

(***************************************************************************)
(* Heap objects (object.h).  heap[o] is the object at address o.           *)
(***************************************************************************)
EmptyTable == [count |-> 0, capacity |-> 0, entries |-> <<>>]

EmptyValueArray == [capacity |-> 0, values |-> <<>>]

\* initChunk: count is Len(code)
EmptyChunk == [capacity |-> 0, code |-> <<>>, constants |-> EmptyValueArray]

ObjStringRec(chars, hash) ==
    [type |-> "OBJ_STRING", isMarked |-> FALSE, chars |-> chars, hash |-> hash]

ObjFunctionRec ==
    [type |-> "OBJ_FUNCTION", isMarked |-> FALSE, arity |-> 0, upvalueCount |-> 0,
     name |-> 0, chunk |-> EmptyChunk]

ObjNativeRec(fn) == [type |-> "OBJ_NATIVE", isMarked |-> FALSE, function |-> fn]

ObjClosureRec(function, n) ==
    [type |-> "OBJ_CLOSURE", isMarked |-> FALSE, function |-> function,
     upvalues |-> SeqOf([i \in 1..n |-> 0])]

\* location >= 0: the address of stack slot location; -1: the address of the
\* upvalue's own closed field.
ObjUpvalueRec(slot) ==
    [type |-> "OBJ_UPVALUE", isMarked |-> FALSE, location |-> slot,
     closed |-> NIL_VAL, next |-> 0]

ObjClassRec(name) ==
    [type |-> "OBJ_CLASS", isMarked |-> FALSE, name |-> name, methods |-> EmptyTable]

ObjInstanceRec(klass) ==
    [type |-> "OBJ_INSTANCE", isMarked |-> FALSE, klass |-> klass, fields |-> EmptyTable]

ObjBoundMethodRec(receiver, method) ==
    [type |-> "OBJ_BOUND_METHOD", isMarked |-> FALSE, receiver |-> receiver,
     method |-> method]

\* Memory that free() has released.
FreedRec == [type |-> "FREED", isMarked |-> FALSE]

IsFreed(h, o) == h[o].type = "FREED"

IsObjType(h, x, type) == IS_OBJ(x) /\ h[AS_OBJ(x)].type = type

\* A value whose object has been freed: reading its type is a use after free.
Dangling(h, x) == IS_OBJ(x) /\ IsFreed(h, AS_OBJ(x))

(***************************************************************************)
(* The hash table (table.c, table.h).  A table is [count, capacity,        *)
(* entries]; entries[i + 1] is bucket i, a record [key, value] whose key   *)
(* is a string address or 0 (NULL).  A tombstone is a NULL key with the    *)
(* value true.                                                             *)
(***************************************************************************)
EmptyEntry == [key |-> 0, value |-> NIL_VAL]

Tombstone == [key |-> 0, value |-> BOOL_VAL(TRUE)]

GROW_CAPACITY(capacity) == IF capacity < 8 THEN 8 ELSE capacity * 2

\* count + 1 > capacity * TABLE_MAX_LOAD, with TABLE_MAX_LOAD = 0.75
OverLoad(count, capacity) == 4 * (count + 1) > 3 * capacity

RECURSIVE findEntryFrom(_, _, _, _, _, _)
\* The probe loop of findEntry from bucket index; tombstone is the bucket of
\* the first tombstone passed (-1: none), n the buckets probed so far.  The
\* result is a bucket number, or -1 when the loop of the code never ends.
findEntryFrom(entries, capacity, key, index, tombstone, n) ==
    LET entry == entries[index + 1] IN
    IF n >= capacity THEN -1
    ELSE IF entry.key = 0 /\ IS_NIL(entry.value)
    THEN (IF tombstone # -1 THEN tombstone ELSE index)
    ELSE IF entry.key = key
    THEN index
    ELSE findEntryFrom(entries, capacity, key, (index + 1) % capacity,
                       IF entry.key = 0 /\ tombstone = -1 THEN index ELSE tombstone, n + 1)

findEntry(h, entries, capacity, key) ==
    findEntryFrom(entries, capacity, key, HashIndex(h[key].hash, capacity), -1, 0)

\* tableGet: [found, value]
tableGet(h, table, key) ==
    IF table.count = 0 THEN [found |-> FALSE, value |-> NIL_VAL]
    ELSE LET entry == table.entries[findEntry(h, table.entries, table.capacity, key) + 1]
         IN  IF entry.key = 0 THEN [found |-> FALSE, value |-> NIL_VAL]
             ELSE [found |-> TRUE, value |-> entry.value]

\* A tableDelete that leaves the entry in the table
tableDelete_Keep(h, table, key) == [table |-> table, deleted |-> FALSE]

\* A tableDelete that empties the bucket and leaves no tombstone
tableDelete_Empties(h, table, key) ==
    IF table.count = 0 THEN [table |-> table, deleted |-> FALSE]
    ELSE LET index == findEntry(h, table.entries, table.capacity, key) IN
         IF table.entries[index + 1].key = 0 THEN [table |-> table, deleted |-> FALSE]
         ELSE [table |-> [table EXCEPT !.entries[index + 1] = EmptyEntry], deleted |-> TRUE]

\* A tableDelete that takes the deleted entry off the count
tableDelete_Uncounts(h, table, key) ==
    IF table.count = 0 THEN [table |-> table, deleted |-> FALSE]
    ELSE LET index == findEntry(h, table.entries, table.capacity, key) IN
         IF table.entries[index + 1].key = 0 THEN [table |-> table, deleted |-> FALSE]
         ELSE [table |-> [table EXCEPT !.count = @ - 1, !.entries[index + 1] = Tombstone],
               deleted |-> TRUE]

\* tableDelete: [table, deleted]
tableDelete(h, table, key) ==
    IF table.count = 0 THEN [table |-> table, deleted |-> FALSE]
    ELSE LET index == findEntry(h, table.entries, table.capacity, key) IN
         IF table.entries[index + 1].key = 0 THEN [table |-> table, deleted |-> FALSE]
         ELSE [table |-> [table EXCEPT !.entries[index + 1] = Tombstone], deleted |-> TRUE]

RECURSIVE tableFindStringFrom(_, _, _, _, _, _)
tableFindStringFrom(h, table, chars, hash, index, n) ==
    LET entry == table.entries[index + 1] IN
    IF n > table.capacity THEN -1
    ELSE IF entry.key = 0
    THEN (IF IS_NIL(entry.value) THEN 0
          ELSE tableFindStringFrom(h, table, chars, hash, (index + 1) % table.capacity, n + 1))
    ELSE IF Len(h[entry.key].chars) = Len(chars) /\ h[entry.key].hash = hash
            /\ h[entry.key].chars = chars
    THEN entry.key
    ELSE tableFindStringFrom(h, table, chars, hash, (index + 1) % table.capacity, n + 1)

\* A tableFindString that never finds the string
tableFindString_Miss(h, table, chars, hash) == 0

\* tableFindString: the interned string with these bytes, or 0 (NULL)
tableFindString(h, table, chars, hash) ==
    IF table.count = 0 THEN 0
    ELSE tableFindStringFrom(h, table, chars, hash, HashIndex(hash, table.capacity), 0)

RECURSIVE rehashRange(_, _, _, _, _, _)
\* The rehash loop of adjustCapacity over the old buckets i .. j, in this
\* order, into entries
rehashRange(h, old, entries, capacity, i, j) ==
    IF i > j THEN entries
    ELSE IF i = j
    THEN (IF old[i].key = 0 THEN entries
          ELSE SeqSet(entries, findEntry(h, entries, capacity, old[i].key) + 1, old[i]))
    ELSE LET E1 == rehashRange(h, old, entries, capacity, i, (i + j) \div 2)
         IN  <<E1, rehashRange(h, old, E1, capacity, ((i + j) \div 2) + 1, j)>>[2]

\* adjustCapacity after its ALLOCATE: the table rebuilt with the new capacity;
\* count is the number of keys, tombstones are dropped.
rebuild(h, table, capacity) ==
    [count |-> Cardinality({i \in 1..Len(table.entries) : table.entries[i].key # 0}),
     capacity |-> capacity,
     entries |-> rehashRange(h, table.entries, SeqOf([i \in 1..capacity |-> EmptyEntry]), capacity,
                             1, Len(table.entries))]

\* The part of tableSet after the growth check: [table, isNewKey]
tableStore(h, table, key, value) ==
    LET index == findEntry(h, table.entries, table.capacity, key)
        entry == table.entries[index + 1]
        isNewKey == entry.key = 0
    IN  [table |-> [table EXCEPT
                      !.count = IF isNewKey /\ IS_NIL(entry.value) THEN @ + 1 ELSE @,
                      !.entries[index + 1] = [key |-> key, value |-> value]],
         isNewKey |-> isNewKey]

(***************************************************************************)
(* The world: the record the C functions act on.                           *)
(*   vm      the VM struct (vm.h)                                          *)
(*   heap    the C heap: heap[o] is the object at address o                *)
(*   parser, scanner, current: the compiler's globals (compiler.c);        *)
(*           current is the chain of compiler states, innermost last       *)
(*   out, err: what was printed on stdout and stderr                       *)
(*   gcAt, allocs: which growing allocation of the step collects, and the  *)
(*           number of growing allocations of the step so far              *)
(*   gclog   a record of the last collection of the step                   *)
(*   fault   "" or the undefined behaviour that occurred                   *)
(*   ret     the value the last C function returned                        *)
(*   res     "" or the InterpretResult with which run() returned           *)
(*   clock   what clock() returns                                          *)
(***************************************************************************)
NoGcLog ==
    [n |-> 0, events |-> <<>>, pre |-> <<>>, marked |-> {}, kept |-> <<>>, active |-> FALSE,
     by |-> <<>>]

World(gcAt) ==
    [vm |-> vm, heap |-> heap, parser |-> parser, scanner |-> scanner,
     current |-> current, out |-> out, err |-> err, gclog |-> NoGcLog,
     fault |-> fault, gcAt |-> gcAt, allocs |-> 0, ret |-> 0, res |-> "", clock |-> 0]

\* The tables of the program: the globals, the intern table, the fields of
\* an instance and the methods of a class.
GlobalsLoc == [k |-> "globals", o |-> 0]

StringsLoc == [k |-> "strings", o |-> 0]

FieldsLoc(o) == [k |-> "fields", o |-> o]

MethodsLoc(o) == [k |-> "methods", o |-> o]

GetTable(W, loc) ==
    CASE loc.k = "globals" -> W.vm.globals
      [] loc.k = "strings" -> W.vm.strings
      [] loc.k = "fields" -> W.heap[loc.o].fields
      [] loc.k = "methods" -> W.heap[loc.o].methods

PutTable(W, loc, table) ==
    CASE loc.k = "globals" -> [W EXCEPT !.vm.globals = table]
      [] loc.k = "strings" -> [W EXCEPT !.vm.strings = table]
      [] loc.k = "fields" -> [W EXCEPT !.heap[loc.o].fields = table]
      [] loc.k = "methods" -> [W EXCEPT !.heap[loc.o].methods = table]

UINT8_COUNT == 256

FRAMES_MAX == 64

\* Value stack[STACK_MAX]
STACK_MAX == FRAMES_MAX * UINT8_COUNT

StackRead(W, i) == IF i < Len(W.vm.stack) /\ i >= 0 THEN W.vm.stack[i + 1] ELSE ZeroValue

StackWrite(W, i, x) ==
    IF i < Len(W.vm.stack) THEN [W EXCEPT !.vm.stack[i + 1] = x]
    ELSE [W EXCEPT !.vm.stack = Append(@, x)]

\* *vm.stackTop = value with stackTop at the end of the array is a write
\* outside of vm.stack, into the fields of the VM that follow it
push(W, x) ==
    IF W.vm.stackTop >= STACK_MAX THEN [W EXCEPT !.fault = "write past the end of the stack"]
    ELSE [StackWrite(W, W.vm.stackTop, x) EXCEPT !.vm.stackTop = @ + 1]

\* pop: the popped value is StackRead(W', W'.vm.stackTop)
pop(W) == [W EXCEPT !.vm.stackTop = @ - 1]

peek(W, distance) == StackRead(W, W.vm.stackTop - 1 - distance)

(***************************************************************************)
(* The garbage collector (memory.c).  The log keeps, for the last          *)
(* collection of the step: the world it started from (pre), the objects    *)
(* marked when the gray stack had drained (marked), the object list after  *)
(* the sweep (kept) and the sequence of mark, purge and free events, each  *)
(* with the number of gray objects at that moment.                         *)
(***************************************************************************)
GcEvent(W, e, o) == [e |-> e, o |-> o, gray |-> Len(W.vm.grayStack)]

\* A markObject that does not look at the mark bit before it pushes
markObject_Again(W, object) ==
    IF object = 0 THEN W
    ELSE IF IsFreed(W.heap, object) THEN [W EXCEPT !.fault = "use after free"]
    ELSE [W EXCEPT !.heap[object].isMarked = TRUE,
                   !.vm.grayStack = Append(@, object),
                   !.gclog.events = Append(@, GcEvent(W, "mark", object))]

\* A markObject whose gray stack is a block of reallocate
markObject_ManagedGray(W, object) ==
    IF object = 0 THEN W
    ELSE IF IsFreed(W.heap, object) THEN [W EXCEPT !.fault = "use after free"]
    ELSE IF W.heap[object].isMarked THEN W
    ELSE [Call("reallocate", W, <<Len(W.vm.grayStack), Len(W.vm.grayStack) + 1>>)
             EXCEPT !.heap[object].isMarked = TRUE,
                    !.vm.grayStack = Append(@, object),
                    !.gclog.events = Append(@, GcEvent(W, "mark", object))]

markObject(W, object) ==
    IF object = 0 THEN W
    ELSE IF IsFreed(W.heap, object) THEN [W EXCEPT !.fault = "use after free"]
    ELSE IF W.heap[object].isMarked THEN W
    ELSE [W EXCEPT !.heap[object].isMarked = TRUE,
                   !.vm.grayStack = Append(@, object),
                   !.gclog.events = Append(@, GcEvent(W, "mark", object))]

markValue(W, value) == IF IS_OBJ(value) THEN Call("markObject", W, <<AS_OBJ(value)>>) ELSE W

\* The object a value refers to, 0 (NULL) for a value that is no object
ObjOf(value) == IF IS_OBJ(value) THEN AS_OBJ(value) ELSE 0

\* A loop that calls markObject on objects[1], objects[2], ... in this order:
\* the white ones among them turn gray, each once, in the order of their
\* first occurrence.
markEach(W, objects) ==
    LET n == Len(objects)
        first == SelectSeq([i \in 1..n |-> i],
                           LAMBDA i : /\ objects[i] # 0
                                      /\ ~W.heap[objects[i]].isMarked
                                      /\ \A j \in 1..(i - 1) : objects[j] # objects[i])
        new == [k \in 1..Len(first) |-> objects[first[k]]]
    IN  IF \E i \in 1..n : objects[i] # 0 /\ IsFreed(W.heap, objects[i])
        THEN [W EXCEPT !.fault = "use after free"]
        ELSE [W EXCEPT !.heap = SeqOf([o \in 1..Len(@) |->
                                    IF o \in Range(new) THEN [@[o] EXCEPT !.isMarked = TRUE]
                                    ELSE @[o]]),
                       !.vm.grayStack = @ \o new,
                       !.gclog.events = @ \o [k \in 1..Len(new) |->
                                                 [e |-> "mark", o |-> new[k],
                                                  gray |-> Len(W.vm.grayStack) + k - 1]]]

\* markValue on each value of the array
markArray(W, array) == Call("markEach", W, <<[i \in 1..Len(array.values) |-> ObjOf(array.values[i])]>>)

\* For each bucket, markObject on the key and then markValue on the value
markTable(W, table) ==
    Call("markEach", W, <<[i \in 1..(2 * Len(table.entries)) |-> IF i % 2 = 1 THEN table.entries[(i + 1) \div 2].key ELSE ObjOf(table.entries[i \div 2].value)]>>)

RECURSIVE UpvalueList(_, _)
\* The list of open upvalues from upvalue on, along next
UpvalueList(h, upvalue) ==
    IF upvalue = 0 THEN <<>>
    ELSE IF IsFreed(h, upvalue) THEN <<upvalue>>
    ELSE <<upvalue>> \o UpvalueList(h, h[upvalue].next)

\* markCompilerRoots: from the innermost compiler along the enclosing chain
markCompilerRoots(W) ==
    Call("markEach", W, <<[i \in 1..Len(W.current) |-> W.current[Len(W.current) + 1 - i].function]>>)

markRoots(W) ==
    LET W1 == Call("markEach", W, <<[i \in 1..W.vm.stackTop |-> ObjOf(W.vm.stack[i])]>>)
        W2 == Call("markEach", W1, <<[i \in 1..Len(W.vm.frames) |-> W.vm.frames[i].closure]>>)
        W3 == Call("markEach", W2, <<UpvalueList(W.heap, W.vm.openUpvalues)>>)
        W4 == Call("markTable", W3, <<W.vm.globals>>)
        W5 == Call("markCompilerRoots", W4, <<>>)
    IN  <<W1, W2, W3, W4, W5, Call("markObject", W5, <<W.vm.initString>>)>>[6]

\* A blackenObject that does not trace the upvalues of a closure
blackenObject_SkipUpvalues(W, object) ==
    LET obj == W.heap[object] IN
    CASE obj.type = "OBJ_BOUND_METHOD" -> Call("markEach", W, <<<<ObjOf(obj.receiver), obj.method>>>>)
      [] obj.type = "OBJ_CLASS" -> Call("markTable", Call("markObject", W, <<obj.name>>), <<obj.methods>>)
      [] obj.type = "OBJ_CLOSURE" -> Call("markObject", W, <<obj.function>>)
      [] obj.type = "OBJ_FUNCTION" -> Call("markArray", Call("markObject", W, <<obj.name>>), <<obj.chunk.constants>>)
      [] obj.type = "OBJ_INSTANCE" -> Call("markTable", Call("markObject", W, <<obj.klass>>), <<obj.fields>>)
      [] obj.type = "OBJ_UPVALUE" -> Call("markValue", W, <<obj.closed>>)
      [] OTHER -> W

blackenObject(W, object) ==
    LET obj == W.heap[object] IN
    CASE obj.type = "OBJ_BOUND_METHOD" -> Call("markEach", W, <<<<ObjOf(obj.receiver), obj.method>>>>)
      [] obj.type = "OBJ_CLASS" -> Call("markTable", Call("markObject", W, <<obj.name>>), <<obj.methods>>)
      [] obj.type = "OBJ_CLOSURE" -> Call("markEach", W, <<<<obj.function>> \o obj.upvalues>>)
      [] obj.type = "OBJ_FUNCTION" -> Call("markArray", Call("markObject", W, <<obj.name>>), <<obj.chunk.constants>>)
      [] obj.type = "OBJ_INSTANCE" -> Call("markTable", Call("markObject", W, <<obj.klass>>), <<obj.fields>>)
      [] obj.type = "OBJ_UPVALUE" -> Call("markValue", W, <<obj.closed>>)
      [] OTHER -> W

\* At most n turns of the loop of traceReferences, n >= 1
traceSteps(W, n) ==
    IF Len(W.vm.grayStack) = 0 \/ W.fault # "" THEN W
    ELSE IF n = 1
    THEN Call("blackenObject", [W EXCEPT !.vm.grayStack = Take(@, Len(@) - 1)], <<W.vm.grayStack[Len(W.vm.grayStack)]>>)
    ELSE LET W1 == Call("traceSteps", W, <<n \div 2>>)
         IN  <<W1, Call("traceSteps", W1, <<n - (n \div 2)>>)>>[2]

\* Every turn of the loop takes one object off the gray stack, and an object
\* gets onto it once: the loop has at most as many turns as there are objects.
traceReferences(W) == Call("traceSteps", W, <<Len(W.heap) + 1>>)

\* tableRemoveWhite(&vm.strings): tableDelete on every key that is not marked,
\* in the order of the buckets
tableRemoveWhite(W) ==
    LET entries == W.vm.strings.entries
        IsWhite(entry) == entry.key # 0 /\ ~W.heap[entry.key].isMarked
        white == SelectSeq(entries, IsWhite)
    IN  [W EXCEPT !.vm.strings.entries = SeqOf([i \in 1..Len(@) |->
                                             IF IsWhite(@[i]) THEN Tombstone ELSE @[i]]),
                  !.gclog.events = @ \o [k \in 1..Len(white) |-> GcEvent(W, "purge", white[k].key)]]

\* What freeObject releases: the object and the arrays it owns, each array
\* counted by its elements
ObjectSize(obj) ==
    CASE obj.type = "OBJ_CLASS" -> obj.methods.capacity + 1
      [] obj.type = "OBJ_CLOSURE" -> Len(obj.upvalues) + 1
      [] obj.type = "OBJ_FUNCTION" -> 2 * obj.chunk.capacity + obj.chunk.constants.capacity + 1
      [] obj.type = "OBJ_INSTANCE" -> obj.fields.capacity + 1
      [] obj.type = "OBJ_STRING" -> Len(obj.chars) + 1 + 1
      [] OTHER -> 1

\* The FREE and FREE_ARRAY of freeObject are one request that shrinks
freeObject(W, object) ==
    Call("reallocate", [W EXCEPT !.heap[object] = FreedRec,
                                 !.gclog.events = Append(@, GcEvent(W, "free", object))],
         <<ObjectSize(W.heap[object]), 0>>)

\* A sweep that frees the first unmarked object of the list only
sweep_OneObject(W) ==
    LET IsMarked(o) == W.heap[o].isMarked
        IsWhite(o) == ~W.heap[o].isMarked
        all == SelectSeq(W.vm.objects, IsWhite)
        white == SubSeq(all, 1, IF all = <<>> THEN 0 ELSE 1)
        freed[k \in 0..Len(white)] == IF k = 0 THEN 0 ELSE freed[k - 1] + ObjectSize(W.heap[white[k]])
    IN  Call("reallocate",
             [W EXCEPT !.heap = SeqOf([o \in 1..Len(@) |->
                                    IF @[o].isMarked THEN [@[o] EXCEPT !.isMarked = FALSE]
                                    ELSE IF o \in Range(white) THEN FreedRec ELSE @[o]]),
                       !.vm.objects = SelectSeq(@, LAMBDA o : o \notin Range(white)),
                       !.gclog.events = @ \o [k \in 1..Len(white) |-> GcEvent(W, "free", white[k])]],
             <<freed[Len(white)], 0>>)

\* The loop of sweep along vm.objects: a marked object stays and loses its
\* mark, freeObject is called on the others, in the order of the list; the
\* requests of these calls, all of them with newSize 0, are taken as one.
sweep(W) ==
    LET IsMarked(o) == W.heap[o].isMarked
        IsWhite(o) == ~W.heap[o].isMarked
        white == SelectSeq(W.vm.objects, IsWhite)
        freed[k \in 0..Len(white)] == IF k = 0 THEN 0 ELSE freed[k - 1] + ObjectSize(W.heap[white[k]])
    IN  Call("reallocate",
             [W EXCEPT !.heap = SeqOf([o \in 1..Len(@) |->
                                    IF @[o].isMarked THEN [@[o] EXCEPT !.isMarked = FALSE]
                                    ELSE IF o \in Range(white) THEN FreedRec ELSE @[o]]),
                       !.vm.objects = SelectSeq(@, IsMarked),
                       !.gclog.events = @ \o [k \in 1..Len(white) |-> GcEvent(W, "free", white[k])]],
             <<freed[Len(white)], 0>>)

\* A collectGarbage that sweeps before it removes the white strings
collectGarbage_SweepFirst(W) ==
    LET W0 == [W EXCEPT !.gclog = [n |-> @.n + 1, events |-> <<>>,
                                   pre |-> <<[vm |-> W.vm, heap |-> W.heap, current |-> W.current]>>,
                                   marked |-> {}, kept |-> <<>>, active |-> TRUE,
                                   by |-> <<>>]]
        W1 == Call("markRoots", W0, <<>>)
        W2 == Call("traceReferences", W1, <<>>)
        W3 == [W2 EXCEPT !.gclog.marked = {o \in 1..Len(W2.heap) : W2.heap[o].isMarked}]
        W4 == Call("sweep", W3, <<>>)
        W5 == Call("tableRemoveWhite", W4, <<>>)
    IN  <<W1, W2, W4, W5, [W5 EXCEPT !.gclog.kept = W5.vm.objects, !.gclog.active = FALSE]>>[5]

collectGarbage(W) ==
    LET W0 == [W EXCEPT !.gclog = [n |-> @.n + 1, events |-> <<>>,
                                   pre |-> <<[vm |-> W.vm, heap |-> W.heap, current |-> W.current]>>,
                                   marked |-> {}, kept |-> <<>>, active |-> TRUE,
                                   by |-> <<>>]]
        W1 == Call("markRoots", W0, <<>>)
        W2 == Call("traceReferences", W1, <<>>)
        W3 == [W2 EXCEPT !.gclog.marked = {o \in 1..Len(W2.heap) : W2.heap[o].isMarked}]
        W4 == Call("tableRemoveWhite", W3, <<>>)
        W5 == Call("sweep", W4, <<>>)
    IN  <<W1, W2, W4, W5, [W5 EXCEPT !.gclog.kept = W5.vm.objects, !.gclog.active = FALSE]>>[5]

\* reallocate: a growing request is where a collection can start.  Whether it
\* does depends on bytesAllocated and nextGC (or the stress flag), which the
\* step's choice gcAt stands for: the gcAt-th growing request collects.
\* A request that grows a block while a collection is in progress: the test
\* bytesAllocated > nextGC that has started the collection still holds, and
\* collectGarbage would be entered again
Reenters(W) == [W EXCEPT !.fault = "collectGarbage in collectGarbage"]

reallocate(W, oldSize, newSize) ==
    IF newSize > oldSize
    THEN LET W1 == [W EXCEPT !.allocs = @ + 1, !.vm.bytesAllocated = @ + newSize - oldSize]
         IN  IF W.gclog.active THEN Reenters(W1)
             ELSE IF W1.allocs = W1.gcAt
             THEN [Call("collectGarbage", W1, <<>>) EXCEPT !.gclog.by = <<oldSize, newSize>>]
             ELSE W1
    ELSE [W EXCEPT !.vm.bytesAllocated = @ + newSize - oldSize]

\* FREE and FREE_ARRAY: reallocate(pointer, size, 0)
release(W, size) == reallocate(W, size, 0)

\* tableSet on the table at loc; ret is 1 when the key is new, else 0.  The
\* ALLOCATE of adjustCapacity comes first and may collect.
tableSet(W, loc, key, value) ==
    LET table == GetTable(W, loc)
        grow == OverLoad(table.count, table.capacity)
        capacity == GROW_CAPACITY(table.capacity)
        W1 == IF grow THEN Call("reallocate", W, <<0, capacity>>) ELSE W
        W2 == IF grow THEN PutTable(W1, loc, rebuild(W1.heap, GetTable(W1, loc), capacity)) ELSE W1
        W3 == IF grow THEN release(W2, table.capacity) ELSE W2
        r == tableStore(W3.heap, GetTable(W3, loc), key, value)
    IN  <<W1, W2, W3, [PutTable(W3, loc, r.table) EXCEPT !.ret = IF r.isNewKey THEN 1 ELSE 0]>>[4]

(***************************************************************************)
(* Chunks and value arrays (chunk.c, value.c).  The chunk written is the   *)
(* one of the function object at address f; code[i] of the C array is      *)
(* code[i + 1] here.                                                       *)
(***************************************************************************)
writeChunk(W, f, byte) ==
    LET chunk == W.heap[f].chunk
        oldCapacity == chunk.capacity
        grow == oldCapacity < Len(chunk.code) + 1
        W0 == [W EXCEPT !.heap[f].chunk.capacity = GROW_CAPACITY(oldCapacity)]
        W1 == IF grow THEN Call("reallocate", W0, <<oldCapacity, GROW_CAPACITY(oldCapacity)>>) ELSE W
        W2 == IF grow THEN Call("reallocate", W1, <<oldCapacity, GROW_CAPACITY(oldCapacity)>>) ELSE W
    IN  <<W1, W2, [W2 EXCEPT !.heap[f].chunk.code = Append(@, byte)]>>[3]

writeValueArray(W, f, value) ==
    LET array == W.heap[f].chunk.constants
        oldCapacity == array.capacity
        grow == oldCapacity < Len(array.values) + 1
        W0 == [W EXCEPT !.heap[f].chunk.constants.capacity = GROW_CAPACITY(oldCapacity)]
        W1 == IF grow THEN Call("reallocate", W0, <<oldCapacity, GROW_CAPACITY(oldCapacity)>>) ELSE W
    IN  <<W1, [W1 EXCEPT !.heap[f].chunk.constants.values = Append(@, value)]>>[2]

\* addConstant: ret is the index of the constant
addConstant(W, f, value) ==
    LET W1 == push(W, value)
        W2 == Call("writeValueArray", W1, <<f, value>>)
        W3 == pop(W2)
    IN  <<W1, W2, [W3 EXCEPT !.ret = Len(W3.heap[f].chunk.constants.values) - 1]>>[3]

(***************************************************************************)
(* Objects (object.c).  ret is the address of the object returned.         *)
(***************************************************************************)
allocateObject(W, rec) ==
    LET W1 == Call("reallocate", W, <<0, 1>>)
        object == Len(W1.heap) + 1
    IN  <<W1, [W1 EXCEPT !.heap = Append(@, rec), !.vm.objects = <<object>> \o @,
                       !.ret = object]>>[2]

newBoundMethod(W, receiver, method) == Call("allocateObject", W, <<ObjBoundMethodRec(receiver, method)>>)

newClass(W, name) == Call("allocateObject", W, <<ObjClassRec(name)>>)

newClosure(W, function) ==
    LET n == W.heap[function].upvalueCount
        W1 == Call("reallocate", W, <<0, n>>)
    IN  <<W1, Call("allocateObject", W1, <<ObjClosureRec(function, n)>>)>>[2]

newFunction(W) == Call("allocateObject", W, <<ObjFunctionRec>>)

newInstance(W, klass) == Call("allocateObject", W, <<ObjInstanceRec(klass)>>)

newNative(W, function) == Call("allocateObject", W, <<ObjNativeRec(function)>>)

newUpvalue(W, slot) == Call("allocateObject", W, <<ObjUpvalueRec(slot)>>)

allocateString(W, chars, hash) ==
    LET W1 == Call("allocateObject", W, <<ObjStringRec(chars, hash)>>)
        string == W1.ret
        W2 == push(W1, OBJ_VAL(string))
        W3 == Call("tableSet", W2, <<StringsLoc, string, NIL_VAL>>)
    IN  <<W1, W2, W3, [pop(W3) EXCEPT !.ret = string]>>[4]

takeString(W, chars) ==
    LET hash == hashString(chars)
        interned == tableFindString(W.heap, W.vm.strings, chars, hash)
    IN  IF interned # 0 THEN [release(W, Len(chars) + 1) EXCEPT !.ret = interned]
        ELSE Call("allocateString", W, <<chars, hash>>)

copyString(W, chars) ==
    LET hash == hashString(chars)
        interned == tableFindString(W.heap, W.vm.strings, chars, hash)
        W1 == Call("reallocate", W, <<0, Len(chars) + 1>>)
    IN  IF interned # 0 THEN [W EXCEPT !.ret = interned]
        ELSE <<W1, Call("allocateString", W1, <<chars, hash>>)>>[2]

(***************************************************************************)
(* The scanner and the parser state (scanner.c, compiler.c).  The source   *)
(* text is kept as the sequence of tokens the scanner cuts it into; a      *)
(* token is [type, lex], lex the bytes of its lexeme.  Once the source is  *)
(* used up scanToken returns TOKEN_EOF for ever.                           *)
(***************************************************************************)
Token(type, lex) == [type |-> type, lex |-> lex]

EofToken == Token("TOKEN_EOF", <<>>)

\* A bound on the tokens still to come, the current one and the end included:
\* no loop of the parser takes more turns than that
TokensLeft(W) == Len(W.scanner.source) - W.scanner.pos + 3

initScanner(W, source) == [W EXCEPT !.scanner = [source |-> source, pos |-> 1]]

\* parser.current = scanToken()
scanToken(W) ==
    IF W.scanner.pos > Len(W.scanner.source)
    THEN [W EXCEPT !.parser.current = EofToken]
    ELSE [W EXCEPT !.parser.current = W.scanner.source[W.scanner.pos], !.scanner.pos = @ + 1]

errorAt(W, token, message) ==
    IF W.parser.panicMode THEN W
    ELSE [W EXCEPT !.parser.panicMode = TRUE,
                   !.err = Append(@, message),
                   !.parser.hadError = TRUE]

error(W, message) == errorAt(W, W.parser.previous, message)

errorAtCurrent(W, message) == errorAt(W, W.parser.current, message)

RECURSIVE advanceLoop(_)
advanceLoop(W) ==
    LET W1 == scanToken(W) IN
    IF W1.parser.current.type # "TOKEN_ERROR" THEN W1
    ELSE advanceLoop(errorAtCurrent(W1, "Unexpected character."))

advance(W) == advanceLoop([W EXCEPT !.parser.previous = W.parser.current])

consume(W, type, message) ==
    IF W.parser.current.type = type THEN Call("advance", W, <<>>) ELSE errorAtCurrent(W, message)

check(W, type) == W.parser.current.type = type

\* match: the world afterwards; whether it matched is check(W, type) before
match(W, type) == IF check(W, type) THEN Call("advance", W, <<>>) ELSE W

(***************************************************************************)
(* The compiler (compiler.c).  current is the chain of Compiler structs,   *)
(* the innermost last; a Compiler is [function, type, locals, upvalues,    *)
(* scopeDepth] with localCount = Len(locals) and the upvalue count in      *)
(* function->upvalueCount.                                                 *)
(***************************************************************************)
Cur(W) == W.current[Len(W.current)]

\* the function that owns currentChunk()
currentChunk(W) == Cur(W).function

ChunkCount(W) == Len(W.heap[currentChunk(W)].chunk.code)

emitByte(W, byte) == Call("writeChunk", W, <<currentChunk(W), byte>>)

emitBytes(W, byte1, byte2) ==
    LET W1 == Call("emitByte", W, <<byte1>>)
    IN  <<W1, Call("emitByte", W1, <<byte2>>)>>[2]

Local(name, depth) == [name |-> name, depth |-> depth, isCaptured |-> FALSE]

CompilerRec(function, type) ==
    [function |-> function, type |-> type, locals |-> <<>>, upvalues |-> <<>>, scopeDepth |-> 0]

initCompiler(W, type) ==
    LET W1 == Call("newFunction", W, <<>>)
        function == W1.ret
        W2 == [W1 EXCEPT !.current = Append(@, CompilerRec(function, type))]
        W3 == IF type # "TYPE_SCRIPT"
              THEN LET Wc == Call("copyString", W2, <<W2.parser.previous.lex>>)
                   IN  [Wc EXCEPT !.heap[function].name = Wc.ret]
              ELSE W2
    IN  <<W1, W3, [W3 EXCEPT !.current[Len(W3.current)].locals = Append(@, Local(<<>>, 0))]>>[3]

\* The opcodes, numbered in the order of the switch of run()
OP_CONSTANT == 0
OP_NIL == 1
OP_TRUE == 2
OP_FALSE == 3
OP_POP == 4
OP_GET_LOCAL == 5
OP_SET_LOCAL == 6
OP_GET_GLOBAL == 7
OP_DEFINE_GLOBAL == 8
OP_SET_GLOBAL == 9
OP_GET_UPVALUE == 10
OP_SET_UPVALUE == 11
OP_GET_PROPERTY == 12
OP_SET_PROPERTY == 13
OP_GET_SUPER == 14
OP_EQUAL == 15
OP_GREATER == 16
OP_LESS == 17
OP_ADD == 18
OP_SUBTRACT == 19
OP_MULTIPLY == 20
OP_DIVIDE == 21
OP_NOT == 22
OP_NEGATE == 23
OP_PRINT == 24
OP_JUMP == 25
OP_JUMP_IF_FALSE == 26
OP_LOOP == 27
OP_CALL == 28
OP_INVOKE == 29
OP_SUPER_INVOKE == 30
OP_CLOSURE == 31
OP_CLOSE_UPVALUE == 32
OP_RETURN == 33
OP_CLASS == 34
OP_INHERIT == 35
OP_METHOD == 36

UINT8_MAX == 255
UINT16_MAX == 65535

PREC_NONE == 0
PREC_ASSIGNMENT == 1
PREC_OR == 2
PREC_AND == 3
PREC_EQUALITY == 4
PREC_COMPARISON == 5
PREC_TERM == 6
PREC_FACTOR == 7
PREC_UNARY == 8
PREC_CALL == 9
PREC_PRIMARY == 10

SetMax(S) == CHOOSE x \in S : \A y \in S : y <= x

SetMin(S) == CHOOSE x \in S : \A y \in S : x <= y

\* A jumpOperand without the limit of 65535 bytes
jumpOperand_NoLimit(jump) ==
    [error |-> FALSE, hi |-> (jump \div 256) % 256, lo |-> jump % 256]

\* What patchJump and emitLoop do with a distance: the test against
\* UINT16_MAX, (jump >> 8) & 0xff and jump & 0xff
jumpOperand(jump) ==
    [error |-> jump > UINT16_MAX, hi |-> (jump \div 256) % 256, lo |-> jump % 256]

\* The distance of emitLoop in a chunk of count bytes, OP_LOOP included
loopDistance(count, loopStart) == count - loopStart + 2

emitLoop(W, loopStart) ==
    LET W1 == Call("emitByte", W, <<OP_LOOP>>)
        operand == jumpOperand(loopDistance(ChunkCount(W1), loopStart))
        W2 == IF operand.error
              THEN error(W1, "Loop body too large. I know this sucks, please bear with me.")
              ELSE W1
        W3 == Call("emitByte", W2, <<operand.hi>>)
    IN  <<W1, W3, Call("emitByte", W3, <<operand.lo>>)>>[3]

\* emitJump: ret is the offset of the operand to patch
emitJump(W, instruction) ==
    LET W1 == Call("emitByte", W, <<instruction>>)
        W2 == Call("emitByte", W1, <<255>>)
        W3 == Call("emitByte", W2, <<255>>)
    IN  <<W1, W2, W3, [W3 EXCEPT !.ret = ChunkCount(W3) - 2]>>[4]

emitReturn(W) ==
    LET W1 == Call("emitByte", W, <<OP_NIL>>)
    IN  <<W1, Call("emitByte", W1, <<OP_RETURN>>)>>[2]

\* A makeConstant without the limit of 256 constants
makeConstant_NoLimit(W, value) == Call("addConstant", W, <<currentChunk(W), value>>)

makeConstant(W, value) ==
    LET W1 == Call("addConstant", W, <<currentChunk(W), value>>)
    IN  IF W1.ret > UINT8_MAX
        THEN [error(W1, "Too many constants in one chunk.") EXCEPT !.ret = 0]
        ELSE W1

emitConstant(W, value) ==
    LET W1 == Call("makeConstant", W, <<value>>)
    IN  <<W1, Call("emitBytes", W1, <<OP_CONSTANT, W1.ret>>)>>[2]

\* The distance of patchJump in a chunk of count bytes
jumpDistance(count, offset) == count - offset - 2

\* A patchJump that leaves the placeholder of emitJump in the code
patchJump_Unpatched(W, offset) == W

patchJump(W, offset) ==
    LET operand == jumpOperand(jumpDistance(ChunkCount(W), offset))
        W1 == IF operand.error THEN error(W, "Too much code to jump over.") ELSE W
    IN  [W1 EXCEPT !.heap[currentChunk(W)].chunk.code[offset + 1] = operand.hi,
                   !.heap[currentChunk(W)].chunk.code[offset + 2] = operand.lo]

\* An endCompiler that restores the enclosing compiler only when no error
\* was reported
endCompiler_OnSuccess(W) ==
    LET W1 == Call("emitReturn", W, <<>>)
    IN  <<W1, [W1 EXCEPT !.ret = Cur(W1).function,
                         !.current = IF W1.parser.hadError THEN @ ELSE Take(@, Len(@) - 1)]>>[2]

\* endCompiler: ret is the function compiled
endCompiler(W) ==
    LET W1 == Call("emitReturn", W, <<>>)
    IN  <<W1, [W1 EXCEPT !.ret = Cur(W1).function, !.current = Take(@, Len(@) - 1)]>>[2]

beginScope(W) == [W EXCEPT !.current[Len(W.current)].scopeDepth = @ + 1]

endScopeLoop(W, turns) ==
    LET c == Cur(W)
        n == Len(c.locals)
    IN  IF ~(n > 0 /\ c.locals[n].depth > c.scopeDepth) THEN W
        ELSE IF turns = 1
        THEN LET W1 == Call("emitByte", W, <<IF c.locals[n].isCaptured THEN OP_CLOSE_UPVALUE ELSE OP_POP>>)
             IN  [W1 EXCEPT !.current[Len(W1.current)].locals = Take(@, n - 1)]
        ELSE LET W1 == Call("endScopeLoop", W, <<turns \div 2>>)
             IN  <<W1, Call("endScopeLoop", W1, <<turns - (turns \div 2)>>)>>[2]

\* An endScope that emits OP_POP for every local, captured or not
endScope_PopsAll(W) ==
    LET c == Cur(W)
        depth == c.scopeDepth - 1
        gone == {i \in 1..Len(c.locals) : c.locals[i].depth > depth}
        W1 == [W EXCEPT !.current[Len(W.current)].scopeDepth = depth,
                        !.current[Len(W.current)].locals = Take(@, Len(@) - Cardinality(gone))]
    IN  [W1 EXCEPT !.heap[currentChunk(W)].chunk.code = @ \o SeqOf([i \in 1..Cardinality(gone) |-> OP_POP])]

endScope(W) ==
    Call("endScopeLoop", [W EXCEPT !.current[Len(W.current)].scopeDepth = @ - 1],
         <<Len(Cur(W).locals) + 1>>)

\* identifierConstant: name is the lexeme of the token
identifierConstant(W, name) ==
    LET W1 == Call("copyString", W, <<name>>)
    IN  <<W1, Call("makeConstant", W1, <<OBJ_VAL(W1.ret)>>)>>[2]

identifiersEqual(a, b) == Len(a) = Len(b) /\ a = b

\* resolveLocal in the compiler at position k of the chain; ret is the slot or -1
resolveLocal(W, k, name) ==
    LET locals == W.current[k].locals
        found == {i \in 1..Len(locals) : identifiersEqual(name, locals[i].name)}
    IN  IF found = {} THEN [W EXCEPT !.ret = -1]
        ELSE LET i == SetMax(found)
                 W1 == IF locals[i].depth = -1
                       THEN error(W, "Can't read local variable in its own initializer.")
                       ELSE W
             IN  [W1 EXCEPT !.ret = i - 1]

addUpvalue(W, k, index, isLocal) ==
    LET function == W.current[k].function
        upvalueCount == W.heap[function].upvalueCount
        upvalues == W.current[k].upvalues
        same == {i \in 1..upvalueCount : upvalues[i].index = index /\ upvalues[i].isLocal = isLocal}
    IN  IF same # {} THEN [W EXCEPT !.ret = SetMin(same) - 1]
        ELSE IF upvalueCount = UINT8_COUNT
        THEN [error(W, "Too many closure variables in function.") EXCEPT !.ret = 0]
        ELSE [W EXCEPT !.current[k].upvalues = Append(@, [index |-> index, isLocal |-> isLocal]),
                       !.heap[function].upvalueCount = @ + 1,
                       !.ret = upvalueCount]

resolveUpvalue(W, k, name) ==
    IF k = 1 THEN [W EXCEPT !.ret = -1]
    ELSE LET W1 == Call("resolveLocal", W, <<k - 1, name>>)
             local == W1.ret
         IN  IF local # -1
             THEN Call("addUpvalue", [W1 EXCEPT !.current[k - 1].locals[local + 1].isCaptured = TRUE], <<k, local, TRUE>>)
             ELSE LET W2 == Call("resolveUpvalue", W1, <<k - 1, name>>)
                  IN  IF W2.ret # -1 THEN Call("addUpvalue", W2, <<k, W2.ret, FALSE>>)
                      ELSE [W2 EXCEPT !.ret = -1]

addLocal(W, name) ==
    IF Len(Cur(W).locals) = UINT8_COUNT
    THEN error(W, "Too many local variables in function (CTok supports upto 256 variables in a block).")
    ELSE [W EXCEPT !.current[Len(W.current)].locals = Append(@, Local(name, -1))]

declareVariable(W) ==
    LET c == Cur(W)
        name == W.parser.previous.lex
        outer == {i \in 1..Len(c.locals) : c.locals[i].depth # -1 /\ c.locals[i].depth < c.scopeDepth}
        first == IF outer = {} THEN 1 ELSE SetMax(outer) + 1
        clash == \E i \in first..Len(c.locals) : identifiersEqual(name, c.locals[i].name)
    IN  IF c.scopeDepth = 0 THEN W
        ELSE Call("addLocal", IF clash THEN error(W, "Already variable with this name in this scope.") ELSE W, <<name>>)

\* parseVariable: ret is the constant index of the name, 0 for a local
parseVariable(W, errorMessage) ==
    LET W0 == Call("consume", W, <<"TOKEN_IDENTIFIER", errorMessage>>)
        W1 == Call("declareVariable", W0, <<>>)
    IN  IF Cur(W1).scopeDepth > 0 THEN [W1 EXCEPT !.ret = 0]
        ELSE Call("identifierConstant", W1, <<W1.parser.previous.lex>>)

markInitialized(W) ==
    IF Cur(W).scopeDepth = 0 THEN W
    ELSE [W EXCEPT !.current[Len(W.current)].locals[Len(Cur(W).locals)].depth = Cur(W).scopeDepth]

defineVariable(W, global) ==
    IF Cur(W).scopeDepth > 0 THEN Call("markInitialized", W, <<>>)
    ELSE Call("emitBytes", W, <<OP_DEFINE_GLOBAL, global>>)

(***************************************************************************)
(* Expressions: the Pratt parser.                                          *)
(***************************************************************************)

expression(W) == Call("parsePrecedence", W, <<PREC_ASSIGNMENT>>)

\* rules[type].precedence
RulePrecedence(type) ==
    CASE type \in {"TOKEN_LEFT_PAREN", "TOKEN_DOT"} -> PREC_CALL
      [] type \in {"TOKEN_MINUS", "TOKEN_PLUS"} -> PREC_TERM
      [] type \in {"TOKEN_SLASH", "TOKEN_STAR"} -> PREC_FACTOR
      [] type \in {"TOKEN_BANG_EQUAL", "TOKEN_EQUAL_EQUAL"} -> PREC_EQUALITY
      [] type \in {"TOKEN_GREATER", "TOKEN_GREATER_EQUAL", "TOKEN_LESS", "TOKEN_LESS_EQUAL"} -> PREC_COMPARISON
      [] type = "TOKEN_AND" -> PREC_AND
      [] type = "TOKEN_OR" -> PREC_OR
      [] OTHER -> PREC_NONE

binary(W, canAssign) ==
    LET operatorType == W.parser.previous.type
        W1 == Call("parsePrecedence", W, <<RulePrecedence(operatorType) + 1>>)
    IN  <<W1,
          CASE operatorType = "TOKEN_BANG_EQUAL" -> Call("emitBytes", W1, <<OP_EQUAL, OP_NOT>>)
            [] operatorType = "TOKEN_EQUAL_EQUAL" -> Call("emitByte", W1, <<OP_EQUAL>>)
            [] operatorType = "TOKEN_GREATER" -> Call("emitByte", W1, <<OP_GREATER>>)
            [] operatorType = "TOKEN_GREATER_EQUAL" -> Call("emitBytes", W1, <<OP_LESS, OP_NOT>>)
            [] operatorType = "TOKEN_LESS" -> Call("emitByte", W1, <<OP_LESS>>)
            [] operatorType = "TOKEN_LESS_EQUAL" -> Call("emitBytes", W1, <<OP_GREATER, OP_NOT>>)
            [] operatorType = "TOKEN_PLUS" -> Call("emitByte", W1, <<OP_ADD>>)
            [] operatorType = "TOKEN_MINUS" -> Call("emitByte", W1, <<OP_SUBTRACT>>)
            [] operatorType = "TOKEN_STAR" -> Call("emitByte", W1, <<OP_MULTIPLY>>)
            [] operatorType = "TOKEN_SLASH" -> Call("emitByte", W1, <<OP_DIVIDE>>)
            [] OTHER -> W1>>[2]

\* An argumentList without the limit of 255 arguments
argumentTurn_NoLimit(W, argCount) ==
    LET W1 == Call("expression", W, <<>>)
        more == check(W1, "TOKEN_COMMA")
        W3 == IF more THEN Call("advance", W1, <<>>) ELSE W1
    IN  <<W1, W3, [W3 EXCEPT !.ret = [argCount |-> (argCount + 1) % 256, more |-> more]]>>[3]

\* One turn of the do-while of argumentList; ret is the argument count, a
\* uint8_t, and whether a comma followed
argumentTurn(W, argCount) ==
    LET W1 == Call("expression", W, <<>>)
        W2 == IF argCount = 255 THEN error(W1, "Can't have more than 255 arguments.") ELSE W1
        more == check(W2, "TOKEN_COMMA")
        W3 == IF more THEN Call("advance", W2, <<>>) ELSE W2
    IN  <<W1, W3, [W3 EXCEPT !.ret = [argCount |-> (argCount + 1) % 256, more |-> more]]>>[3]

\* The do-while of argumentList, cut in halves
argumentLoop(W, turns) ==
    IF ~W.ret.more THEN W
    ELSE IF turns = 1 THEN Call("argumentTurn", W, <<W.ret.argCount>>)
    ELSE LET W1 == Call("argumentLoop", W, <<turns \div 2>>)
         IN  <<W1, Call("argumentLoop", W1, <<turns - (turns \div 2)>>)>>[2]

argumentList(W) ==
    LET W0 == IF ~check(W, "TOKEN_RIGHT_PAREN")
              THEN Call("argumentLoop", [W EXCEPT !.ret = [argCount |-> 0, more |-> TRUE]],
                        <<TokensLeft(W)>>)
              ELSE [W EXCEPT !.ret = [argCount |-> 0, more |-> FALSE]]
        W1 == [W0 EXCEPT !.ret = W0.ret.argCount]
    IN  <<W1,
          [Call("consume", W1, <<"TOKEN_RIGHT_PAREN", "Expect ')' after arguments.">>) EXCEPT !.ret = W1.ret]>>[2]

\* call(bool canAssign) of compiler.c
callInfix(W, canAssign) ==
    LET W1 == Call("argumentList", W, <<>>)
    IN  <<W1, Call("emitBytes", W1, <<OP_CALL, W1.ret>>)>>[2]

literal(W, canAssign) ==
    CASE W.parser.previous.type = "TOKEN_FALSE" -> Call("emitByte", W, <<OP_FALSE>>)
      [] W.parser.previous.type = "TOKEN_NIL" -> Call("emitByte", W, <<OP_NIL>>)
      [] W.parser.previous.type = "TOKEN_TRUE" -> Call("emitByte", W, <<OP_TRUE>>)
      [] OTHER -> W

dot(W, canAssign) ==
    LET W1 == Call("consume", W, <<"TOKEN_IDENTIFIER", "Expect property name after '.'.">>)
        W2 == Call("identifierConstant", W1, <<W1.parser.previous.lex>>)
        name == W2.ret
        W3 == IF canAssign /\ check(W2, "TOKEN_EQUAL") THEN Call("expression", Call("advance", W2, <<>>), <<>>) ELSE W2
    IN  <<W1, W2, W3,
          IF canAssign /\ check(W2, "TOKEN_EQUAL") THEN Call("emitBytes", W3, <<OP_SET_PROPERTY, name>>)
          ELSE Call("emitBytes", W3, <<OP_GET_PROPERTY, name>>)>>[4]

grouping(W, canAssign) ==
    LET W1 == Call("expression", W, <<>>)
    IN  <<W1, Call("consume", W1, <<"TOKEN_RIGHT_PAREN", "Expect ')' after expression.">>)>>[2]

RECURSIVE strtod(_, _, _)
\* strtod on the digits of a number lexeme, from position i with value n so far
strtod(lex, i, n) ==
    IF i > Len(lex) \/ lex[i] < 48 \/ lex[i] > 57 THEN n
    ELSE strtod(lex, i + 1, 10 * n + (lex[i] - 48))

\* number(bool canAssign) of compiler.c
numberPrefix(W, canAssign) == Call("emitConstant", W, <<NUMBER_VAL(strtod(W.parser.previous.lex, 1, 0))>>)

or_(W, canAssign) ==
    LET W1 == Call("emitJump", W, <<OP_JUMP_IF_FALSE>>)
        elseJump == W1.ret
        W2 == Call("emitJump", W1, <<OP_JUMP>>)
        endJump == W2.ret
        W3 == Call("emitByte", Call("patchJump", W2, <<elseJump>>), <<OP_POP>>)
        W4 == Call("parsePrecedence", W3, <<PREC_OR>>)
    IN  <<W1, W2, W3, W4, Call("patchJump", W4, <<endJump>>)>>[5]

\* string(bool canAssign) of compiler.c: the lexeme without its quotation marks
stringPrefix(W, canAssign) ==
    LET lex == W.parser.previous.lex
        W1 == Call("copyString", W, <<SubSeq(lex, 2, Len(lex) - 1)>>)
    IN  <<W1, Call("emitConstant", W1, <<OBJ_VAL(W1.ret)>>)>>[2]

namedVariable(W, name, canAssign) ==
    LET W1 == Call("resolveLocal", W, <<Len(W.current), name>>)
        W2 == IF W1.ret # -1 THEN W1 ELSE Call("resolveUpvalue", W1, <<Len(W1.current), name>>)
        W3 == IF W1.ret # -1 \/ W2.ret # -1 THEN W2 ELSE Call("identifierConstant", W2, <<name>>)
        arg == W3.ret
        getOp == IF W1.ret # -1 THEN OP_GET_LOCAL
                 ELSE IF W2.ret # -1 THEN OP_GET_UPVALUE ELSE OP_GET_GLOBAL
        setOp == IF W1.ret # -1 THEN OP_SET_LOCAL
                 ELSE IF W2.ret # -1 THEN OP_SET_UPVALUE ELSE OP_SET_GLOBAL
        W4 == IF canAssign /\ check(W3, "TOKEN_EQUAL") THEN Call("expression", Call("advance", W3, <<>>), <<>>) ELSE W3
    IN  <<W1, W2, W3, W4,
          IF canAssign /\ check(W3, "TOKEN_EQUAL") THEN Call("emitBytes", W4, <<setOp, arg>>)
          ELSE Call("emitBytes", W4, <<getOp, arg>>)>>[5]

variable(W, canAssign) == Call("namedVariable", W, <<W.parser.previous.lex, canAssign>>)

unary(W, canAssign) ==
    LET operatorType == W.parser.previous.type
        W1 == Call("parsePrecedence", W, <<PREC_UNARY>>)
    IN  <<W1,
          CASE operatorType = "TOKEN_BANG" -> Call("emitByte", W1, <<OP_NOT>>)
            [] operatorType = "TOKEN_MINUS" -> Call("emitByte", W1, <<OP_NEGATE>>)
            [] OTHER -> W1>>[2]

and_(W, canAssign) ==
    LET W1 == Call("emitJump", W, <<OP_JUMP_IF_FALSE>>)
        endJump == W1.ret
        W2 == Call("emitByte", W1, <<OP_POP>>)
        W3 == Call("parsePrecedence", W2, <<PREC_AND>>)
    IN  <<W1, W2, W3, Call("patchJump", W3, <<endJump>>)>>[4]

\* rules[type].prefix, "NULL" when there is none
PrefixRule(type) ==
    CASE type = "TOKEN_LEFT_PAREN" -> "grouping"
      [] type \in {"TOKEN_MINUS", "TOKEN_BANG"} -> "unary"
      [] type = "TOKEN_IDENTIFIER" -> "variable"
      [] type = "TOKEN_STRING" -> "string"
      [] type = "TOKEN_NUMBER" -> "number"
      [] type \in {"TOKEN_FALSE", "TOKEN_NIL", "TOKEN_TRUE"} -> "literal"
      [] OTHER -> "NULL"

\* prefixRule(canAssign)
prefixRule(W, type, canAssign) ==
    CASE PrefixRule(type) = "grouping" -> Call("grouping", W, <<canAssign>>)
      [] PrefixRule(type) = "unary" -> Call("unary", W, <<canAssign>>)
      [] PrefixRule(type) = "variable" -> Call("variable", W, <<canAssign>>)
      [] PrefixRule(type) = "string" -> Call("stringPrefix", W, <<canAssign>>)
      [] PrefixRule(type) = "number" -> Call("numberPrefix", W, <<canAssign>>)
      [] PrefixRule(type) = "literal" -> Call("literal", W, <<canAssign>>)

\* infixRule(canAssign), by rules[type].infix
infixRule(W, type, canAssign) ==
    CASE type = "TOKEN_LEFT_PAREN" -> Call("callInfix", W, <<canAssign>>)
      [] type = "TOKEN_DOT" -> Call("dot", W, <<canAssign>>)
      [] type = "TOKEN_AND" -> Call("and_", W, <<canAssign>>)
      [] type = "TOKEN_OR" -> Call("or_", W, <<canAssign>>)
      [] OTHER -> Call("binary", W, <<canAssign>>)

infixLoop(W, precedence, canAssign) ==
    IF precedence <= RulePrecedence(W.parser.current.type)
    THEN LET W1 == Call("advance", W, <<>>)
             W2 == Call("infixRule", W1, <<W1.parser.previous.type, canAssign>>)
         IN  <<W2, Call("infixLoop", W2, <<precedence, canAssign>>)>>[2]
    ELSE W

\* A parsePrecedence that lets every prefix consume a following =
parsePrecedence_AlwaysAssign(W, precedence) ==
    LET W1 == Call("advance", W, <<>>)
    IN  IF PrefixRule(W1.parser.previous.type) = "NULL" THEN error(W1, "Expect expression.")
        ELSE LET W2 == Call("prefixRule", W1, <<W1.parser.previous.type, TRUE>>)
                 W3 == Call("infixLoop", W2, <<precedence, TRUE>>)
             IN  <<W2, W3,
                   IF check(W3, "TOKEN_EQUAL")
                   THEN error(Call("advance", W3, <<>>), "Invalid assignment target.")
                   ELSE W3>>[3]

\* A parsePrecedence that leaves a token that starts no expression where
\* it is
parsePrecedence_Peeks(W, precedence) ==
    LET W1 == Call("advance", W, <<>>)
        canAssign == precedence <= PREC_ASSIGNMENT
    IN  IF PrefixRule(W.parser.current.type) = "NULL" THEN error(W, "Expect expression.")
        ELSE LET W2 == Call("prefixRule", W1, <<W1.parser.previous.type, canAssign>>)
                 W3 == Call("infixLoop", W2, <<precedence, canAssign>>)
             IN  <<W2, W3,
                   IF canAssign /\ check(W3, "TOKEN_EQUAL")
                   THEN error(Call("advance", W3, <<>>), "Invalid assignment target.")
                   ELSE W3>>[3]

parsePrecedence(W, precedence) ==
    LET W1 == Call("advance", W, <<>>)
        canAssign == precedence <= PREC_ASSIGNMENT
    IN  IF PrefixRule(W1.parser.previous.type) = "NULL" THEN error(W1, "Expect expression.")
        ELSE LET W2 == Call("prefixRule", W1, <<W1.parser.previous.type, canAssign>>)
                 W3 == Call("infixLoop", W2, <<precedence, canAssign>>)
             IN  <<W2, W3,
                   IF canAssign /\ check(W3, "TOKEN_EQUAL")
                   THEN error(Call("advance", W3, <<>>), "Invalid assignment target.")
                   ELSE W3>>[3]

(***************************************************************************)
(* Statements and declarations.                                            *)
(***************************************************************************)

blockLoop(W, turns) ==
    IF ~(~check(W, "TOKEN_RIGHT_BRACE") /\ ~check(W, "TOKEN_EOF")) THEN W
    ELSE IF turns = 1 THEN Call("declaration", W, <<>>)
    ELSE LET W1 == Call("blockLoop", W, <<turns \div 2>>)
         IN  <<W1, Call("blockLoop", W1, <<turns - (turns \div 2)>>)>>[2]

block(W) ==
    LET W1 == Call("blockLoop", W, <<TokensLeft(W)>>)
    IN  <<W1, Call("consume", W1, <<"TOKEN_RIGHT_BRACE", "Expect '}' after block.">>)>>[2]

\* The do-while over the parameters of function()
parameterLoop(W) ==
    LET f == currentChunk(W)
        W1 == [W EXCEPT !.heap[f].arity = @ + 1]
        W2 == IF W1.heap[f].arity > 255
              THEN errorAtCurrent(W1, "Can't have more than 255 parameters.")
              ELSE W1
        W3 == Call("parseVariable", W2, <<"Expect parameter name.">>)
        W4 == Call("defineVariable", W3, <<W3.ret>>)
    IN  <<W3, W4, IF check(W4, "TOKEN_COMMA") THEN Call("parameterLoop", Call("advance", W4, <<>>), <<>>) ELSE W4>>[3]

\* The loop at the end of function(): two bytes for each upvalue i .. n
emitUpvalueOperands(W, upvalues, i, n) ==
    IF i > n THEN W
    ELSE LET W1 == Call("emitBytes", W, <<IF upvalues[i].isLocal THEN 1 ELSE 0, upvalues[i].index>>)
         IN  <<W1, Call("emitUpvalueOperands", W1, <<upvalues, i + 1, n>>)>>[2]

function(W, type) ==
    LET W0 == Call("initCompiler", W, <<type>>)
        W1 == Call("consume", beginScope(W0), <<"TOKEN_LEFT_PAREN", "Expect '(' after function name.">>)
        W2 == IF ~check(W1, "TOKEN_RIGHT_PAREN") THEN Call("parameterLoop", W1, <<>>) ELSE W1
        W3 == Call("consume", Call("consume", W2, <<"TOKEN_RIGHT_PAREN", "Expect ')' after parameters.">>), <<"TOKEN_LEFT_BRACE", "Expect '{' before function body.">>)
        W4 == Call("block", W3, <<>>)
        compiler == Cur(W4)
        W5 == Call("endCompiler", W4, <<>>)
        W6 == Call("makeConstant", W5, <<OBJ_VAL(compiler.function)>>)
        W7 == Call("emitBytes", W6, <<OP_CLOSURE, W6.ret>>)
    IN  <<W0, W1, W2, W3, W4, W5, W6, W7,
          Call("emitUpvalueOperands", W7, <<compiler.upvalues, 1, W7.heap[compiler.function].upvalueCount>>)>>[9]

classDeclaration(W) ==
    LET W1 == Call("consume", W, <<"TOKEN_IDENTIFIER", "Expect class name.">>)
        W2 == Call("identifierConstant", W1, <<W1.parser.previous.lex>>)
        nameConstant == W2.ret
        W3 == Call("emitBytes", Call("declareVariable", W2, <<>>), <<OP_CLASS, nameConstant>>)
        W4 == Call("defineVariable", W3, <<nameConstant>>)
        W5 == Call("consume", W4, <<"TOKEN_LEFT_BRACE", "Expect '{' before class body.">>)
    IN  <<W1, W2, W3, W4, W5,
          Call("consume", W5, <<"TOKEN_RIGHT_BRACE", "Expect '}' after class body.">>)>>[6]

funDeclaration(W) ==
    LET W1 == Call("parseVariable", W, <<"Expect function name.">>)
        global == W1.ret
        W2 == Call("function", Call("markInitialized", W1, <<>>), <<"TYPE_FUNCTION">>)
    IN  <<W1, W2, Call("defineVariable", W2, <<global>>)>>[3]

varDeclaration(W) ==
    LET W1 == Call("parseVariable", W, <<"Expect variable name.">>)
        global == W1.ret
        W2 == IF check(W1, "TOKEN_EQUAL") THEN Call("expression", Call("advance", W1, <<>>), <<>>) ELSE Call("emitByte", W1, <<OP_NIL>>)
        W3 == Call("consume", W2, <<"TOKEN_SEMICOLON", "Expect ';' after variable declaration.">>)
    IN  <<W1, W2, W3, Call("defineVariable", W3, <<global>>)>>[4]

expressionStatement(W) ==
    LET W1 == Call("expression", W, <<>>)
        W2 == Call("consume", W1, <<"TOKEN_SEMICOLON", " Expect ';' after expression.">>)
    IN  <<W1, W2, Call("emitByte", W2, <<OP_POP>>)>>[3]

\* A forStatement whose body loops back to the condition, not to the increment
forStatement_LoopToCondition(W) ==
    LET Initializer(V) ==
            IF check(V, "TOKEN_SEMICOLON") THEN Call("advance", V, <<>>)
            ELSE IF check(V, "TOKEN_VAR") THEN Call("varDeclaration", Call("advance", V, <<>>), <<>>)
            ELSE Call("expressionStatement", V, <<>>)
        \* The condition clause: ret is exitJump, -1 where there is no condition
        Condition(V) ==
            IF ~check(V, "TOKEN_SEMICOLON")
            THEN Call("emitByte",
                      Call("emitJump",
                           Call("consume", Call("expression", V, <<>>),
                                <<"TOKEN_SEMICOLON", "Expect ';' after loop condition.">>),
                           <<OP_JUMP_IF_FALSE>>),
                      <<OP_POP>>)
            ELSE [Call("advance", V, <<>>) EXCEPT !.ret = -1]
        \* The increment clause: ret is the new loopStart
        IncrementFrom(V, loopStart, bodyJump, incrementStart) ==
            [Call("patchJump",
                  Call("emitLoop",
                       Call("consume", Call("emitByte", Call("expression", V, <<>>), <<OP_POP>>),
                            <<"TOKEN_RIGHT_PAREN", "Expect ')' after for clauses.">>),
                       <<loopStart>>),
                  <<bodyJump>>) EXCEPT !.ret = incrementStart]
        Increment(V, loopStart) ==
            IF ~check(V, "TOKEN_RIGHT_PAREN")
            THEN LET Vj == Call("emitJump", V, <<OP_JUMP>>)
                 IN  IncrementFrom(Vj, loopStart, Vj.ret, ChunkCount(Vj))
            ELSE [Call("advance", V, <<>>) EXCEPT !.ret = loopStart]
        Exit(V, exitJump) ==
            IF exitJump # -1
            THEN Call("emitByte", Call("patchJump", V, <<exitJump>>), <<OP_POP>>)
            ELSE V
        W1 == Call("consume", beginScope(W), <<"TOKEN_LEFT_PAREN", "Expect '(' after 'for'.">>)
        W2 == Initializer(W1)
        W3 == Condition(W2)
        W4 == Increment(W3, ChunkCount(W2))
        W5 == Call("statement", W4, <<>>)
        W6 == Call("emitLoop", W5, <<ChunkCount(W2)>>)
        W7 == Exit(W6, W3.ret)
    IN  <<W1, W2, W3, W4, W5, W6, W7, Call("endScope", W7, <<>>)>>[8]

forStatement(W) ==
    LET Initializer(V) ==
            IF check(V, "TOKEN_SEMICOLON") THEN Call("advance", V, <<>>)
            ELSE IF check(V, "TOKEN_VAR") THEN Call("varDeclaration", Call("advance", V, <<>>), <<>>)
            ELSE Call("expressionStatement", V, <<>>)
        \* The condition clause: ret is exitJump, -1 where there is no condition
        Condition(V) ==
            IF ~check(V, "TOKEN_SEMICOLON")
            THEN Call("emitByte",
                      Call("emitJump",
                           Call("consume", Call("expression", V, <<>>),
                                <<"TOKEN_SEMICOLON", "Expect ';' after loop condition.">>),
                           <<OP_JUMP_IF_FALSE>>),
                      <<OP_POP>>)
            ELSE [Call("advance", V, <<>>) EXCEPT !.ret = -1]
        \* The increment clause: ret is the new loopStart
        IncrementFrom(V, loopStart, bodyJump, incrementStart) ==
            [Call("patchJump",
                  Call("emitLoop",
                       Call("consume", Call("emitByte", Call("expression", V, <<>>), <<OP_POP>>),
                            <<"TOKEN_RIGHT_PAREN", "Expect ')' after for clauses.">>),
                       <<loopStart>>),
                  <<bodyJump>>) EXCEPT !.ret = incrementStart]
        Increment(V, loopStart) ==
            IF ~check(V, "TOKEN_RIGHT_PAREN")
            THEN LET Vj == Call("emitJump", V, <<OP_JUMP>>)
                 IN  IncrementFrom(Vj, loopStart, Vj.ret, ChunkCount(Vj))
            ELSE [Call("advance", V, <<>>) EXCEPT !.ret = loopStart]
        Exit(V, exitJump) ==
            IF exitJump # -1
            THEN Call("emitByte", Call("patchJump", V, <<exitJump>>), <<OP_POP>>)
            ELSE V
        W1 == Call("consume", beginScope(W), <<"TOKEN_LEFT_PAREN", "Expect '(' after 'for'.">>)
        W2 == Initializer(W1)
        W3 == Condition(W2)
        W4 == Increment(W3, ChunkCount(W2))
        W5 == Call("statement", W4, <<>>)
        W6 == Call("emitLoop", W5, <<W4.ret>>)
        W7 == Exit(W6, W3.ret)
    IN  <<W1, W2, W3, W4, W5, W6, W7, Call("endScope", W7, <<>>)>>[8]

\* ifStatement that leaves the condition on the stack when it is false
ifStatement_KeepsCondition(W) ==
    LET W0 == Call("expression", Call("consume", W, <<"TOKEN_LEFT_PAREN", "Expect '(' after 'if'.">>), <<>>)
        W1 == Call("consume", W0, <<"TOKEN_RIGHT_PAREN", "Expect ')' after condition.">>)
        W2 == Call("emitJump", W1, <<OP_JUMP_IF_FALSE>>)
        thenJump == W2.ret
        Wp == Call("emitByte", W2, <<OP_POP>>)
        Ws == Call("statement", Wp, <<>>)
        W3 == Call("emitJump", Ws, <<OP_JUMP>>)
        elseJump == W3.ret
        W4 == Call("patchJump", W3, <<thenJump>>)
        W5 == IF check(W4, "TOKEN_ELSE") THEN Call("statement", Call("advance", W4, <<>>), <<>>) ELSE W4
    IN  <<W0, W1, W2, Wp, Ws, W3, W4, W5, Call("patchJump", W5, <<elseJump>>)>>[9]

ifStatement(W) ==
    LET W0 == Call("expression", Call("consume", W, <<"TOKEN_LEFT_PAREN", "Expect '(' after 'if'.">>), <<>>)
        W1 == Call("consume", W0, <<"TOKEN_RIGHT_PAREN", "Expect ')' after condition.">>)
        W2 == Call("emitJump", W1, <<OP_JUMP_IF_FALSE>>)
        thenJump == W2.ret
        Wp == Call("emitByte", W2, <<OP_POP>>)
        Ws == Call("statement", Wp, <<>>)
        W3 == Call("emitJump", Ws, <<OP_JUMP>>)
        elseJump == W3.ret
        W4 == Call("emitByte", Call("patchJump", W3, <<thenJump>>), <<OP_POP>>)
        W5 == IF check(W4, "TOKEN_ELSE") THEN Call("statement", Call("advance", W4, <<>>), <<>>) ELSE W4
    IN  <<W0, W1, W2, Wp, Ws, W3, W4, W5, Call("patchJump", W5, <<elseJump>>)>>[9]

printStatement(W) ==
    LET W1 == Call("expression", W, <<>>)
        W2 == Call("consume", W1, <<"TOKEN_SEMICOLON", "Expect ';' after value.">>)
    IN  <<W1, W2, Call("emitByte", W2, <<OP_PRINT>>)>>[3]

returnStatement(W) ==
    LET W1 == IF Cur(W).type = "TYPE_SCRIPT" THEN error(W, "Can't return from top-level code.")
              ELSE W
        W2 == IF check(W1, "TOKEN_SEMICOLON") THEN Call("advance", W1, <<>>) ELSE Call("expression", W1, <<>>)
        W3 == IF check(W1, "TOKEN_SEMICOLON") THEN W2
              ELSE Call("consume", W2, <<"TOKEN_SEMICOLON", "Expect ';' after return value.">>)
    IN  <<W2, W3, IF check(W1, "TOKEN_SEMICOLON") THEN Call("emitReturn", W3, <<>>) ELSE Call("emitByte", W3, <<OP_RETURN>>)>>[3]

whileStatement(W) ==
    LET loopStart == ChunkCount(W)
        W0 == Call("expression", Call("consume", W, <<"TOKEN_LEFT_PAREN", "Expect '(' after 'while'.">>), <<>>)
        W1 == Call("consume", W0, <<"TOKEN_RIGHT_PAREN", "Expect ')' after condition.">>)
        W2 == Call("emitJump", W1, <<OP_JUMP_IF_FALSE>>)
        exitJump == W2.ret
        Wp == Call("emitByte", W2, <<OP_POP>>)
        Ws == Call("statement", Wp, <<>>)
        W3 == Call("emitLoop", Ws, <<loopStart>>)
        W4 == Call("patchJump", W3, <<exitJump>>)
    IN  <<W0, W1, W2, Wp, Ws, W3, W4, Call("emitByte", W4, <<OP_POP>>)>>[8]

RECURSIVE synchronizeLoop(_)
synchronizeLoop(W) ==
    IF W.parser.current.type = "TOKEN_EOF" THEN W
    ELSE IF W.parser.previous.type = "TOKEN_SEMICOLON" THEN W
    ELSE IF W.parser.current.type \in {"TOKEN_CLASS", "TOKEN_FUN", "TOKEN_VAR", "TOKEN_FOR",
                                       "TOKEN_IF", "TOKEN_WHILE", "TOKEN_PRINT", "TOKEN_RETURN"}
    THEN W
    ELSE synchronizeLoop(Call("advance", W, <<>>))

\* A synchronize that also clears the error flag
synchronize_ClearError(W) ==
    synchronizeLoop([W EXCEPT !.parser.panicMode = FALSE, !.parser.hadError = FALSE])

synchronize(W) == synchronizeLoop([W EXCEPT !.parser.panicMode = FALSE])

declaration(W) ==
    LET W0 == Call("advance", W, <<>>)
        W1 == CASE check(W, "TOKEN_CLASS") -> Call("classDeclaration", W0, <<>>)
                [] check(W, "TOKEN_FUN") -> Call("funDeclaration", W0, <<>>)
                [] check(W, "TOKEN_VAR") -> Call("varDeclaration", W0, <<>>)
                [] OTHER -> Call("statement", W, <<>>)
    IN  <<W1, IF W1.parser.panicMode THEN Call("synchronize", W1, <<>>) ELSE W1>>[2]

\* The block statement of statement(): beginScope(); block(); endScope();
blockStatement(W) ==
    LET W1 == Call("block", beginScope(W), <<>>)
    IN  <<W1, Call("endScope", W1, <<>>)>>[2]

statement(W) ==
    LET W0 == Call("advance", W, <<>>)
    IN  CASE check(W, "TOKEN_PRINT") -> Call("printStatement", W0, <<>>)
          [] check(W, "TOKEN_FOR") -> Call("forStatement", W0, <<>>)
          [] check(W, "TOKEN_IF") -> Call("ifStatement", W0, <<>>)
          [] check(W, "TOKEN_RETURN") -> Call("returnStatement", W0, <<>>)
          [] check(W, "TOKEN_WHILE") -> Call("whileStatement", W0, <<>>)
          [] check(W, "TOKEN_LEFT_BRACE") -> Call("blockStatement", W0, <<>>)
          [] OTHER -> Call("expressionStatement", W, <<>>)

(***************************************************************************)
(* The virtual machine (vm.c).  A call frame is [closure, ip, slots]: ip   *)
(* the offset of the next byte in the chunk of the closure's function,     *)
(* slots the stack index of the frame's slot zero.  Functions that return  *)
(* bool leave 1 or 0 in ret.  An upvalue's location is the stack index it  *)
(* points at, or -1 once it points at its own closed field.                *)
(***************************************************************************)
\* A resetStack that leaves the values on the stack
resetStack_KeepStack(W) == [W EXCEPT !.vm.frames = <<>>, !.vm.openUpvalues = 0]

resetStack(W) == [W EXCEPT !.vm.stackTop = 0, !.vm.frames = <<>>, !.vm.openUpvalues = 0]

runtimeError(W, message) == resetStack([W EXCEPT !.err = Append(@, message)])

\* The text that vfprintf writes for %s with a string of lower case letters
\* and digits, and for %d with a number
Letters ==
    <<"a", "b", "c", "d", "e", "f", "g", "h", "i", "j", "k", "l", "m",
      "n", "o", "p", "q", "r", "s", "t", "u", "v", "w", "x", "y", "z">>

FormatChar(c) ==
    IF c \in 97..122 THEN Letters[c - 96]
    ELSE IF c \in 48..57 THEN ToString(c - 48)
    ELSE "?"

FormatS(chars) ==
    LET f[i \in 0..Len(chars)] == IF i = 0 THEN "" ELSE f[i - 1] \o FormatChar(chars[i])
    IN  f[Len(chars)]

FormatD(n) == ToString(n)

\* A read through a pointer to freed memory: undefined behaviour
UseAfterFree(W) == [W EXCEPT !.fault = "use after free"]

\* A call without the limit of FRAMES_MAX frames
call_NoLimit(W, closure, argCount) ==
    IF argCount # W.heap[W.heap[closure].function].arity
    THEN [runtimeError(W, "Expected " \o FormatD(W.heap[W.heap[closure].function].arity) \o " arguments but got " \o FormatD(argCount) \o ".")
            EXCEPT !.ret = 0]
    ELSE [W EXCEPT !.vm.frames = Append(@, [closure |-> closure, ip |-> 0,
                                            slots |-> W.vm.stackTop - argCount - 1]),
                   !.ret = 1]

call(W, closure, argCount) ==
    IF argCount # W.heap[W.heap[closure].function].arity
    THEN [runtimeError(W, "Expected " \o FormatD(W.heap[W.heap[closure].function].arity) \o " arguments but got " \o FormatD(argCount) \o ".")
            EXCEPT !.ret = 0]
    ELSE IF Len(W.vm.frames) = FRAMES_MAX
    THEN [runtimeError(W, "Stack overflow.") EXCEPT !.ret = 0]
    ELSE [W EXCEPT !.vm.frames = Append(@, [closure |-> closure, ip |-> 0,
                                            slots |-> W.vm.stackTop - argCount - 1]),
                   !.ret = 1]

\* A callValue that takes a number for a function of no parameters
callValue_CallsNumbers(W, callee, argCount) ==
    IF Dangling(W.heap, callee) THEN UseAfterFree(W)
    ELSE IF IsObjType(W.heap, callee, "OBJ_BOUND_METHOD")
    THEN LET bound == W.heap[AS_OBJ(callee)]
         IN  Call("call", StackWrite(W, W.vm.stackTop - argCount - 1, bound.receiver), <<bound.method, argCount>>)
    ELSE IF IsObjType(W.heap, callee, "OBJ_CLASS")
    THEN LET klass == AS_OBJ(callee)
             W1 == Call("newInstance", W, <<klass>>)
             W2 == StackWrite(W1, W1.vm.stackTop - argCount - 1, OBJ_VAL(W1.ret))
             initializer == tableGet(W2.heap, W2.heap[klass].methods, W2.vm.initString)
         IN  IF initializer.found THEN Call("call", W2, <<AS_OBJ(initializer.value), argCount>>)
             ELSE IF argCount # 0
             THEN [runtimeError(W2, "Expected 0 arguments but got " \o FormatD(argCount) \o ".") EXCEPT !.ret = 0]
             ELSE [W2 EXCEPT !.ret = 1]
    ELSE IF IsObjType(W.heap, callee, "OBJ_CLOSURE") THEN Call("call", W, <<AS_OBJ(callee), argCount>>)
    ELSE IF IsObjType(W.heap, callee, "OBJ_NATIVE")
    THEN [push([W EXCEPT !.vm.stackTop = @ - (argCount + 1)], NUMBER_VAL(W.clock)) EXCEPT !.ret = 1]
    ELSE IF IS_NUMBER(callee) THEN [W EXCEPT !.ret = 1]
    ELSE [runtimeError(W, "Can only call functions and classes.") EXCEPT !.ret = 0]

callValue(W, callee, argCount) ==
    IF Dangling(W.heap, callee) THEN UseAfterFree(W)
    ELSE IF IsObjType(W.heap, callee, "OBJ_BOUND_METHOD")
    THEN LET bound == W.heap[AS_OBJ(callee)]
         IN  Call("call", StackWrite(W, W.vm.stackTop - argCount - 1, bound.receiver), <<bound.method, argCount>>)
    ELSE IF IsObjType(W.heap, callee, "OBJ_CLASS")
    THEN LET klass == AS_OBJ(callee)
             W1 == Call("newInstance", W, <<klass>>)
             W2 == StackWrite(W1, W1.vm.stackTop - argCount - 1, OBJ_VAL(W1.ret))
             initializer == tableGet(W2.heap, W2.heap[klass].methods, W2.vm.initString)
         IN  IF initializer.found THEN Call("call", W2, <<AS_OBJ(initializer.value), argCount>>)
             ELSE IF argCount # 0
             THEN [runtimeError(W2, "Expected 0 arguments but got " \o FormatD(argCount) \o ".") EXCEPT !.ret = 0]
             ELSE [W2 EXCEPT !.ret = 1]
    ELSE IF IsObjType(W.heap, callee, "OBJ_CLOSURE") THEN Call("call", W, <<AS_OBJ(callee), argCount>>)
    ELSE IF IsObjType(W.heap, callee, "OBJ_NATIVE")
    THEN [push([W EXCEPT !.vm.stackTop = @ - (argCount + 1)], NUMBER_VAL(W.clock)) EXCEPT !.ret = 1]
    ELSE [runtimeError(W, "Can only call functions and classes.") EXCEPT !.ret = 0]

RECURSIVE walkOpenUpvalues(_, _, _, _)
\* The while loop of captureUpvalue: [prevUpvalue, upvalue] when it stops
walkOpenUpvalues(h, prevUpvalue, upvalue, local) ==
    IF upvalue # 0 /\ h[upvalue].location > local
    THEN walkOpenUpvalues(h, upvalue, h[upvalue].next, local)
    ELSE [prevUpvalue |-> prevUpvalue, upvalue |-> upvalue]

\* A captureUpvalue that never looks for an existing upvalue of the slot
captureUpvalue_AlwaysNew(W, local) ==
    LET W1 == Call("newUpvalue", W, <<local>>)
    IN  [W1 EXCEPT !.heap[W1.ret].next = W.vm.openUpvalues, !.vm.openUpvalues = W1.ret]

\* A captureUpvalue that puts a new upvalue at the head of the list
captureUpvalue_AtHead(W, local) ==
    LET at == walkOpenUpvalues(W.heap, 0, W.vm.openUpvalues, local)
    IN  IF at.upvalue # 0 /\ W.heap[at.upvalue].location = local
        THEN [W EXCEPT !.ret = at.upvalue]
        ELSE LET W1 == Call("newUpvalue", W, <<local>>)
             IN  [W1 EXCEPT !.heap[W1.ret].next = W.vm.openUpvalues, !.vm.openUpvalues = W1.ret]

\* captureUpvalue: ret is the upvalue for the stack slot local
captureUpvalue(W, local) ==
    LET at == walkOpenUpvalues(W.heap, 0, W.vm.openUpvalues, local)
    IN  IF at.upvalue # 0 /\ W.heap[at.upvalue].location = local
        THEN [W EXCEPT !.ret = at.upvalue]
        ELSE LET W1 == Call("newUpvalue", W, <<local>>)
                 createdUpvalue == W1.ret
                 W2 == [W1 EXCEPT !.heap[createdUpvalue].next = at.upvalue]
             IN  IF at.prevUpvalue = 0
                 THEN [W2 EXCEPT !.vm.openUpvalues = createdUpvalue]
                 ELSE [W2 EXCEPT !.heap[at.prevUpvalue].next = createdUpvalue]

\* A closeUpvalues that closes nothing
closeUpvalues_KeepOpen(W, last) == W

closeUpvalues(W, last) ==
    LET upvalue == W.vm.openUpvalues IN
    IF upvalue # 0 /\ W.heap[upvalue].location >= last
    THEN Call("closeUpvalues", [W EXCEPT !.heap[upvalue].closed = StackRead(W, W.heap[upvalue].location),
                                 !.heap[upvalue].location = -1,
                                 !.vm.openUpvalues = W.heap[upvalue].next], <<last>>)
    ELSE W

\* A concatenate that pops one operand only
concatenate_PopOne(W) ==
    LET b == W.heap[AS_OBJ(peek(W, 0))]
        a == W.heap[AS_OBJ(peek(W, 1))]
        W1 == Call("takeString", Call("reallocate", W, <<0, Len(a.chars) + Len(b.chars) + 1>>), <<a.chars \o b.chars>>)
    IN  push(pop(W1), OBJ_VAL(W1.ret))

concatenate(W) ==
    LET b == W.heap[AS_OBJ(peek(W, 0))]
        a == W.heap[AS_OBJ(peek(W, 1))]
        length == Len(a.chars) + Len(b.chars)
        W1 == Call("takeString", Call("reallocate", W, <<0, length + 1>>), <<a.chars \o b.chars>>)
    IN  push(pop(pop(W1)), OBJ_VAL(W1.ret))

RECURSIVE FormatNumber(_)
\* printf("%g") of a whole number: its decimal digits
FormatNumber(n) ==
    IF n < 0 THEN <<45>> \o FormatNumber(-n)
    ELSE IF n < 10 THEN <<48 + n>>
    ELSE FormatNumber(n \div 10) \o <<48 + (n % 10)>>

\* printFunction: "<script>" or "<fn name>"
printFunction(h, fn) ==
    IF h[fn].name = 0 THEN <<60, 115, 99, 114, 105, 112, 116, 62>>
    ELSE <<60, 102, 110, 32>> \o h[h[fn].name].chars \o <<62>>

\* printObject: the bytes written to stdout
printObject(h, o) ==
    CASE h[o].type = "OBJ_BOUND_METHOD" -> printFunction(h, h[h[o].method].function)
      [] h[o].type = "OBJ_CLASS" -> h[h[o].name].chars
      [] h[o].type = "OBJ_CLOSURE" -> printFunction(h, h[o].function)
      [] h[o].type = "OBJ_FUNCTION" -> printFunction(h, o)
      [] h[o].type = "OBJ_INSTANCE" ->
             h[h[h[o].klass].name].chars \o <<32, 105, 110, 115, 116, 97, 110, 99, 101>>
      [] h[o].type = "OBJ_NATIVE" -> <<60, 110, 97, 116, 105, 118, 101, 32, 102, 110, 62>>
      [] h[o].type = "OBJ_STRING" -> h[o].chars
      [] h[o].type = "OBJ_UPVALUE" -> <<117, 112, 118, 97, 108, 117, 101>>

\* printValue: "true", "false", "nil", the number or the object
printValue(h, value) ==
    IF IS_BOOL(value)
    THEN (IF AS_BOOL(value) THEN <<116, 114, 117, 101>> ELSE <<102, 97, 108, 115, 101>>)
    ELSE IF IS_NIL(value) THEN <<110, 105, 108>>
    ELSE IF IS_NUMBER(value) THEN FormatNumber(AS_NUMBER(value))
    ELSE printObject(h, AS_OBJ(value))

(***************************************************************************)
(* The state machine.  pc is "idle" between two calls of interpret(),      *)
(* "compile" inside the loop of compile(), "run" inside the loop of run(), *)
(* and "fault" once undefined behaviour has occurred.  input holds the     *)
(* source lines still to be interpreted.                                   *)
(***************************************************************************)
GcPoints == 0..MaxGcPoint

BlankVM ==
    [stack |-> <<>>, stackTop |-> 0, frames |-> <<>>, globals |-> EmptyTable,
     strings |-> EmptyTable, initString |-> 0, openUpvalues |-> 0, objects |-> <<>>,
     grayStack |-> <<>>, bytesAllocated |-> 0]

BlankWorld ==
    [vm |-> BlankVM, heap |-> <<>>,
     parser |-> [current |-> EofToken, previous |-> EofToken, hadError |-> FALSE,
                 panicMode |-> FALSE],
     scanner |-> [source |-> <<>>, pos |-> 1], current |-> <<>>, out |-> <<>>, err |-> <<>>,
     gclog |-> NoGcLog, fault |-> "", gcAt |-> 0, allocs |-> 0, ret |-> 0, res |-> "",
     clock |-> 0]

\* defineNative(name, function)
defineNative(W, name, fn) ==
    LET W1 == Call("copyString", W, <<name>>)
        W2 == push(W1, OBJ_VAL(W1.ret))
        W3 == Call("newNative", W2, <<fn>>)
        W4 == push(W3, OBJ_VAL(W3.ret))
        W5 == Call("tableSet", W4, <<GlobalsLoc, AS_OBJ(StackRead(W4, 0)), StackRead(W4, 1)>>)
    IN  <<W1, W2, W3, W4, W5, pop(pop(W5))>>[6]

\* initVM: the names are "init" and "clock"
initVM(W) ==
    LET W1 == Call("copyString", [resetStack(W) EXCEPT !.vm.bytesAllocated = 0], <<<<105, 110, 105, 116>>>>)
        W2 == [W1 EXCEPT !.vm.initString = W1.ret]
    IN  <<W2, Call("defineNative", W2, <<<<99, 108, 111, 99, 107>>, "clockNative">>)>>[2]

\* The state variables take the values of the world W; pc becomes next
Commit(W, next) ==
    /\ vm' = W.vm
    /\ heap' = W.heap
    /\ parser' = W.parser
    /\ scanner' = W.scanner
    /\ current' = W.current
    /\ out' = W.out
    /\ err' = W.err
    /\ gclog' = W.gclog
    /\ fault' = W.fault
    /\ pc' = IF W.fault # "" THEN "fault" ELSE next

\* The state variables start with the values of the world W
InitAs(W) ==
    /\ vm = W.vm
    /\ heap = W.heap
    /\ parser = W.parser
    /\ scanner = W.scanner
    /\ current = W.current
    /\ out = W.out
    /\ err = W.err
    /\ gclog = W.gclog
    /\ fault = W.fault

\* probe holds the arguments and the result of the function that a
\* specification of a single function applies; the others leave it alone
NoProbe == [f |-> "none"]

InitWith(sessions) ==
    /\ input \in sessions
    /\ InitAs(Call("initVM", BlankWorld, <<>>))
    /\ pc = "idle"
    /\ result = "NONE"
    /\ runs = 0
    /\ probe = NoProbe

\* interpret(source) up to the loop of compile(): initScanner, initCompiler,
\* the two flags reset and the first advance
Interpret ==
    /\ pc = "idle"
    /\ input # <<>>
    /\ runs < MaxInterprets
    /\ \E g \in GcPoints :
         LET W1 == Call("initCompiler", initScanner(World(g), Head(input)), <<"TYPE_SCRIPT">>)
             W2 == Call("advance", [W1 EXCEPT !.parser.hadError = FALSE, !.parser.panicMode = FALSE], <<>>)
         IN  Commit(<<W1, W2>>[2], "compile")
    /\ input' = Tail(input)
    /\ runs' = runs + 1
    /\ UNCHANGED <<result, probe>>

\* One turn of the loop of compile(): a declaration
CompileDeclaration ==
    /\ pc = "compile"
    /\ parser.current.type # "TOKEN_EOF"
    /\ \E g \in GcPoints : Commit(Call("declaration", World(g), <<>>), "compile")
    /\ UNCHANGED <<result, runs, input, probe>>

\* interpret() from the return of compile() with the function fn up to the
\* call of run()
interpretFunction(W, fn) ==
    LET W2 == Call("newClosure", push(W, OBJ_VAL(fn)), <<fn>>)
        closure == W2.ret
    IN  Call("call", push(pop(W2), OBJ_VAL(closure)), <<closure, 0>>)

\* The end of compile() and the rest of interpret() up to the call of run()
interpretAfterCompile(W) ==
    LET W1 == Call("endCompiler", Call("advance", W, <<>>), <<>>)
        fn == IF W1.parser.hadError THEN 0 ELSE W1.ret
    IN  IF fn = 0 THEN [W1 EXCEPT !.res = "INTERPRET_COMPILE_ERROR"]
        ELSE interpretFunction(W1, fn)

CompileEnd ==
    /\ pc = "compile"
    /\ parser.current.type = "TOKEN_EOF"
    /\ \E g \in GcPoints :
         LET W == Call("interpretAfterCompile", World(g), <<>>)
         IN  /\ Commit(W, IF W.res = "" THEN "run" ELSE "idle")
             /\ result' = IF W.res = "" THEN result ELSE W.res
    /\ UNCHANGED <<runs, input, probe>>

(***************************************************************************)
(* run(): one action for each case of the switch.                          *)
(***************************************************************************)
\* frame, the CallFrame on top
Frame(W) == W.vm.frames[Len(W.vm.frames)]

FrameChunk(W) == W.heap[W.heap[Frame(W).closure].function].chunk

\* *frame->ip, and frame->ip += n
PeekByte(W) == FrameChunk(W).code[Frame(W).ip + 1]

SkipBytes(W, n) == [W EXCEPT !.vm.frames[Len(W.vm.frames)].ip = @ + n]

\* READ_CONSTANT() and READ_SHORT() without the move of ip
PeekConstant(W) == FrameChunk(W).constants.values[PeekByte(W) + 1]

PeekShort(W) == FrameChunk(W).code[Frame(W).ip + 1] * 256 + FrameChunk(W).code[Frame(W).ip + 2]

\* The world after instruction = READ_BYTE()
Fetched(g) == SkipBytes(World(g), 1)

\* run() is at the case of opcode op
Running(op) ==
    /\ pc = "run"
    /\ heap[heap[vm.frames[Len(vm.frames)].closure].function].chunk.code[vm.frames[Len(vm.frames)].ip + 1] = op

\* The case ends: with break when res is "", else run() and interpret() return
Finish(W) ==
    /\ Commit(W, IF W.res = "" THEN "run" ELSE "idle")
    /\ result' = IF W.res = "" THEN result ELSE W.res
    /\ UNCHANGED <<runs, input, probe>>

\* runtimeError(...); return INTERPRET_RUNTIME_ERROR;
Fail(W, message) == [runtimeError(W, message) EXCEPT !.res = "INTERPRET_RUNTIME_ERROR"]

\* The result of a function that returns bool: false makes run() return
OrFail(W) == IF W.fault = "" /\ W.ret = 0 THEN [W EXCEPT !.res = "INTERPRET_RUNTIME_ERROR"] ELSE W

OpConstant ==
    /\ Running(OP_CONSTANT)
    /\ LET W == Fetched(0) IN Finish(push(SkipBytes(W, 1), PeekConstant(W)))

OpNil == Running(OP_NIL) /\ Finish(push(Fetched(0), NIL_VAL))

OpTrue == Running(OP_TRUE) /\ Finish(push(Fetched(0), BOOL_VAL(TRUE)))

OpFalse == Running(OP_FALSE) /\ Finish(push(Fetched(0), BOOL_VAL(FALSE)))

OpPop == Running(OP_POP) /\ Finish(pop(Fetched(0)))

OpGetLocal ==
    /\ Running(OP_GET_LOCAL)
    /\ LET W == Fetched(0)
           slot == PeekByte(W)
       IN  Finish(push(SkipBytes(W, 1), StackRead(W, Frame(W).slots + slot)))

OpSetLocal ==
    /\ Running(OP_SET_LOCAL)
    /\ LET W == Fetched(0)
           slot == PeekByte(W)
       IN  Finish(StackWrite(SkipBytes(W, 1), Frame(W).slots + slot, peek(W, 0)))

OpGetGlobal ==
    /\ Running(OP_GET_GLOBAL)
    /\ LET W == Fetched(0)
           name == AS_OBJ(PeekConstant(W))
           value == tableGet(W.heap, W.vm.globals, name)
       IN  Finish(IF ~value.found THEN Fail(SkipBytes(W, 1), "Undefined variable '" \o FormatS(W.heap[name].chars) \o "'.")
                  ELSE push(SkipBytes(W, 1), value.value))

OpDefineGlobal ==
    /\ Running(OP_DEFINE_GLOBAL)
    /\ \E g \in GcPoints :
         LET W == Fetched(g)
             name == AS_OBJ(PeekConstant(W))
         IN  Finish(pop(Call("tableSet", SkipBytes(W, 1), <<GlobalsLoc, name, peek(W, 0)>>)))

OpSetGlobal ==
    /\ Running(OP_SET_GLOBAL)
    /\ \E g \in GcPoints :
         LET W == Fetched(g)
             name == AS_OBJ(PeekConstant(W))
             W1 == Call("tableSet", SkipBytes(W, 1), <<GlobalsLoc, name, peek(W, 0)>>)
         IN  Finish(IF W1.ret = 1
                    THEN Fail([W1 EXCEPT !.vm.globals = tableDelete(W1.heap, @, name).table],
                              "Undefined variable '" \o FormatS(W.heap[name].chars) \o "'.")
                    ELSE W1)

\* *upvalue->location
UpvalueRead(W, upvalue) ==
    IF W.heap[upvalue].location = -1 THEN W.heap[upvalue].closed
    ELSE StackRead(W, W.heap[upvalue].location)

\* *upvalue->location = x
UpvalueWrite(W, upvalue, x) ==
    IF W.heap[upvalue].location = -1 THEN [W EXCEPT !.heap[upvalue].closed = x]
    ELSE StackWrite(W, W.heap[upvalue].location, x)

OpGetUpvalue ==
    /\ Running(OP_GET_UPVALUE)
    /\ LET W == Fetched(0)
           upvalue == W.heap[Frame(W).closure].upvalues[PeekByte(W) + 1]
       IN  Finish(push(SkipBytes(W, 1), UpvalueRead(W, upvalue)))

OpSetUpvalue ==
    /\ Running(OP_SET_UPVALUE)
    /\ LET W == Fetched(0)
           upvalue == W.heap[Frame(W).closure].upvalues[PeekByte(W) + 1]
       IN  Finish(UpvalueWrite(SkipBytes(W, 1), upvalue, peek(W, 0)))

bindMethod(W, klass, name) ==
    LET method == tableGet(W.heap, W.heap[klass].methods, name)
        W1 == Call("newBoundMethod", W, <<peek(W, 0), AS_OBJ(method.value)>>)
    IN  IF ~method.found THEN [runtimeError(W, "Undefined property '" \o FormatS(W.heap[name].chars) \o "'.") EXCEPT !.ret = 0]
        ELSE [push(pop(W1), OBJ_VAL(W1.ret)) EXCEPT !.ret = 1]

\* A case OP_GET_PROPERTY that looks for a method before it looks for a field
getProperty_MethodFirst(W) ==
    LET instance == AS_OBJ(peek(W, 0))
        name == AS_OBJ(PeekConstant(W))
        value == tableGet(W.heap, W.heap[instance].fields, name)
        method == tableGet(W.heap, W.heap[W.heap[instance].klass].methods, name)
    IN  IF Dangling(W.heap, peek(W, 0)) THEN UseAfterFree(W)
        ELSE IF ~IsObjType(W.heap, peek(W, 0), "OBJ_INSTANCE")
        THEN Fail(W, "Only instances have properties.")
        ELSE IF value.found /\ ~method.found THEN push(pop(SkipBytes(W, 1)), value.value)
        ELSE OrFail(Call("bindMethod", SkipBytes(W, 1), <<W.heap[instance].klass, name>>))

\* The case OP_GET_PROPERTY from the world after the opcode was read
getProperty(W) ==
    LET instance == AS_OBJ(peek(W, 0))
        name == AS_OBJ(PeekConstant(W))
        value == tableGet(W.heap, W.heap[instance].fields, name)
    IN  IF Dangling(W.heap, peek(W, 0)) THEN UseAfterFree(W)
        ELSE IF ~IsObjType(W.heap, peek(W, 0), "OBJ_INSTANCE")
        THEN Fail(W, "Only instances have properties.")
        ELSE IF value.found THEN push(pop(SkipBytes(W, 1)), value.value)
        ELSE OrFail(Call("bindMethod", SkipBytes(W, 1), <<W.heap[instance].klass, name>>))

OpGetProperty ==
    /\ Running(OP_GET_PROPERTY)
    /\ \E g \in GcPoints : Finish(getProperty(Fetched(g)))

OpSetProperty ==
    /\ Running(OP_SET_PROPERTY)
    /\ \E g \in GcPoints :
         LET W == Fetched(g)
             instance == AS_OBJ(peek(W, 1))
             W1 == Call("tableSet", SkipBytes(W, 1), <<FieldsLoc(instance), AS_OBJ(PeekConstant(W)), peek(W, 0)>>)
         IN  Finish(IF Dangling(W.heap, peek(W, 1)) THEN UseAfterFree(W)
                    ELSE IF ~IsObjType(W.heap, peek(W, 1), "OBJ_INSTANCE")
                    THEN Fail(W, "Only instances have fields.")
                    ELSE push(pop(pop(W1)), peek(W1, 0)))

invokeFromClass(W, klass, name, argCount) ==
    LET method == tableGet(W.heap, W.heap[klass].methods, name)
    IN  IF ~method.found
        THEN [runtimeError(W, "Undefined property '" \o FormatS(W.heap[name].chars) \o "'.") EXCEPT !.ret = 0]
        ELSE Call("call", W, <<AS_OBJ(method.value), argCount>>)

\* An invoke that looks among the methods of the class before the fields
invoke_MethodFirst(W, name, argCount) ==
    LET receiver == peek(W, argCount)
        instance == AS_OBJ(receiver)
        value == tableGet(W.heap, W.heap[instance].fields, name)
    IN  IF Dangling(W.heap, receiver) THEN UseAfterFree(W)
        ELSE IF ~IsObjType(W.heap, receiver, "OBJ_INSTANCE")
        THEN [runtimeError(W, "Only instances have methods.") EXCEPT !.ret = 0]
        ELSE IF tableGet(W.heap, W.heap[W.heap[instance].klass].methods, name).found \/ ~value.found
        THEN invokeFromClass(W, W.heap[instance].klass, name, argCount)
        ELSE Call("callValue", StackWrite(W, W.vm.stackTop - argCount - 1, value.value),
                  <<value.value, argCount>>)

invoke(W, name, argCount) ==
    LET receiver == peek(W, argCount)
        instance == AS_OBJ(receiver)
        value == tableGet(W.heap, W.heap[instance].fields, name)
    IN  IF Dangling(W.heap, receiver) THEN UseAfterFree(W)
        ELSE IF ~IsObjType(W.heap, receiver, "OBJ_INSTANCE")
        THEN [runtimeError(W, "Only instances have methods.") EXCEPT !.ret = 0]
        ELSE IF value.found
        THEN Call("callValue", StackWrite(W, W.vm.stackTop - argCount - 1, value.value),
                  <<value.value, argCount>>)
        ELSE invokeFromClass(W, W.heap[instance].klass, name, argCount)

OpInvoke ==
    /\ Running(OP_INVOKE)
    /\ \E g \in GcPoints :
         LET W == Fetched(g)
             method == AS_OBJ(PeekConstant(W))
             argCount == PeekByte(SkipBytes(W, 1))
         IN  Finish(OrFail(invoke(SkipBytes(W, 2), method, argCount)))

defineMethod(W, name) ==
    pop(Call("tableSet", W, <<MethodsLoc(AS_OBJ(peek(W, 1))), name, peek(W, 0)>>))

OpMethod ==
    /\ Running(OP_METHOD)
    /\ \E g \in GcPoints :
         LET W == Fetched(g) IN Finish(defineMethod(SkipBytes(W, 1), AS_OBJ(PeekConstant(W))))

OpEqual ==
    /\ Running(OP_EQUAL)
    /\ LET W == Fetched(0)
       IN  Finish(push(pop(pop(W)), BOOL_VAL(valuesEqual(peek(W, 1), peek(W, 0)))))

\* BINARY_OP(valueType, op): r is valueType(a op b)
BINARY_OP(W, r) ==
    IF ~IS_NUMBER(peek(W, 0)) \/ ~IS_NUMBER(peek(W, 1)) THEN Fail(W, "Operands must be numbers.")
    ELSE push(pop(pop(W)), r)

OpGreater ==
    /\ Running(OP_GREATER)
    /\ LET W == Fetched(0)
       IN  Finish(BINARY_OP(W, BOOL_VAL(AS_NUMBER(peek(W, 1)) > AS_NUMBER(peek(W, 0)))))

OpLess ==
    /\ Running(OP_LESS)
    /\ LET W == Fetched(0)
       IN  Finish(BINARY_OP(W, BOOL_VAL(AS_NUMBER(peek(W, 1)) < AS_NUMBER(peek(W, 0)))))

OpAdd ==
    /\ Running(OP_ADD)
    /\ \E g \in GcPoints :
         LET W == Fetched(g)
             b == peek(W, 0)
             a == peek(W, 1)
         IN  Finish(IF Dangling(W.heap, b) \/ (IsObjType(W.heap, b, "OBJ_STRING") /\ Dangling(W.heap, a))
                    THEN UseAfterFree(W)
                    ELSE IF IsObjType(W.heap, b, "OBJ_STRING") /\ IsObjType(W.heap, a, "OBJ_STRING")
                    THEN Call("concatenate", W, <<>>)
                    ELSE IF IS_NUMBER(b) /\ IS_NUMBER(a)
                    THEN push(pop(pop(W)), NUMBER_VAL(AS_NUMBER(a) + AS_NUMBER(b)))
                    ELSE Fail(W, "Operands must be two numbers or two strings."))

OpSubtract ==
    /\ Running(OP_SUBTRACT)
    /\ LET W == Fetched(0)
       IN  Finish(BINARY_OP(W, NUMBER_VAL(AS_NUMBER(peek(W, 1)) - AS_NUMBER(peek(W, 0)))))

OpMultiply ==
    /\ Running(OP_MULTIPLY)
    /\ LET W == Fetched(0)
       IN  Finish(BINARY_OP(W, NUMBER_VAL(AS_NUMBER(peek(W, 1)) * AS_NUMBER(peek(W, 0)))))

OpNot ==
    /\ Running(OP_NOT)
    /\ LET W == Fetched(0) IN Finish(push(pop(W), BOOL_VAL(isFalsey(peek(W, 0)))))

OpNegate ==
    /\ Running(OP_NEGATE)
    /\ LET W == Fetched(0)
       IN  Finish(IF ~IS_NUMBER(peek(W, 0)) THEN Fail(W, "Operand must be a number.")
                  ELSE push(pop(W), NUMBER_VAL(-AS_NUMBER(peek(W, 0)))))

OpPrint ==
    /\ Running(OP_PRINT)
    /\ LET W == Fetched(0)
       IN  Finish(IF Dangling(W.heap, peek(W, 0)) THEN UseAfterFree(W)
                  ELSE [pop(W) EXCEPT !.out = Append(@, printValue(W.heap, peek(W, 0)))])

OpJump ==
    /\ Running(OP_JUMP)
    /\ LET W == Fetched(0) IN Finish(SkipBytes(W, 2 + PeekShort(W)))

OpJumpIfFalse ==
    /\ Running(OP_JUMP_IF_FALSE)
    /\ LET W == Fetched(0)
       IN  Finish(SkipBytes(W, IF isFalsey(peek(W, 0)) THEN 2 + PeekShort(W) ELSE 2))

OpLoop ==
    /\ Running(OP_LOOP)
    /\ LET W == Fetched(0) IN Finish(SkipBytes(W, 2 - PeekShort(W)))

OpCall ==
    /\ Running(OP_CALL)
    /\ \E g \in GcPoints :
         LET W == Fetched(g)
             argCount == PeekByte(W)
         IN  Finish(OrFail(Call("callValue", SkipBytes(W, 1), <<peek(W, argCount), argCount>>)))

\* The for loop of OP_CLOSURE from upvalue i of closure
captureLoop(W, closure, i) ==
    IF i > Len(W.heap[closure].upvalues) THEN W
    ELSE LET isLocal == PeekByte(W)
             index == PeekByte(SkipBytes(W, 1))
             W1 == SkipBytes(W, 2)
             W2 == IF isLocal # 0 THEN Call("captureUpvalue", W1, <<Frame(W1).slots + index>>)
                   ELSE [W1 EXCEPT !.ret = W1.heap[Frame(W1).closure].upvalues[index + 1]]
         IN  Call("captureLoop", [W2 EXCEPT !.heap[closure].upvalues[i] = W2.ret], <<closure, i + 1>>)

\* Call: the call of the function named f on the world W with the arguments a
Call(f, W, a) ==
    CASE f = "declaration" -> declaration(W)
      [] f = "statement" -> statement(W)
      [] f = "forStatement" -> forStatement(W)
      [] f = "funDeclaration" -> funDeclaration(W)
      [] f = "function" -> function(W, a[1])
      [] f = "parsePrecedence" -> parsePrecedence(W, a[1])
      [] f = "infixLoop" -> infixLoop(W, a[1], a[2])
      [] f = "infixRule" -> infixRule(W, a[1], a[2])
      [] f = "prefixRule" -> prefixRule(W, a[1], a[2])
      [] f = "classDeclaration" -> classDeclaration(W)
      [] f = "variable" -> variable(W, a[1])
      [] f = "namedVariable" -> namedVariable(W, a[1], a[2])
      [] f = "dot" -> dot(W, a[1])
      [] f = "varDeclaration" -> varDeclaration(W)
      [] f = "initVM" -> initVM(W)
      [] f = "defineNative" -> defineNative(W, a[1], a[2])
      [] f = "parameterLoop" -> parameterLoop(W)
      [] f = "ifStatement" -> ifStatement(W)
      [] f = "interpretAfterCompile" -> interpretAfterCompile(W)
      [] f = "initCompiler" -> initCompiler(W, a[1])
      [] f = "or_" -> or_(W, a[1])
      [] f = "whileStatement" -> whileStatement(W)
      [] f = "stringPrefix" -> stringPrefix(W, a[1])
      [] f = "parseVariable" -> parseVariable(W, a[1])
      [] f = "identifierConstant" -> identifierConstant(W, a[1])
      [] f = "and_" -> and_(W, a[1])
      [] f = "concatenate" -> concatenate(W)
      [] f = "numberPrefix" -> numberPrefix(W, a[1])
      [] f = "emitConstant" -> emitConstant(W, a[1])
      [] f = "callValue" -> callValue(W, a[1], a[2])
      [] f = "copyString" -> copyString(W, a[1])
      [] f = "takeString" -> takeString(W, a[1])
      [] f = "allocateString" -> allocateString(W, a[1], a[2])
      [] f = "captureLoop" -> captureLoop(W, a[1], a[2])
      [] f = "binary" -> binary(W, a[1])
      [] f = "emitLoop" -> emitLoop(W, a[1])
      [] f = "endCompiler" -> endCompiler(W)
      [] f = "emitJump" -> emitJump(W, a[1])
      [] f = "emitUpvalueOperands" -> emitUpvalueOperands(W, a[1], a[2], a[3])
      [] f = "makeConstant" -> makeConstant(W, a[1])
      [] f = "captureUpvalue" -> captureUpvalue(W, a[1])
      [] f = "blockStatement" -> blockStatement(W)
      [] f = "endScope" -> endScope(W)
      [] f = "endScopeLoop" -> endScopeLoop(W, a[1])
      [] f = "tableSet" -> tableSet(W, a[1], a[2], a[3])
      [] f = "returnStatement" -> returnStatement(W)
      [] f = "callInfix" -> callInfix(W, a[1])
      [] f = "defineVariable" -> defineVariable(W, a[1])
      [] f = "emitBytes" -> emitBytes(W, a[1], a[2])
      [] f = "emitReturn" -> emitReturn(W)
      [] f = "literal" -> literal(W, a[1])
      [] f = "bindMethod" -> bindMethod(W, a[1], a[2])
      [] f = "unary" -> unary(W, a[1])
      [] f = "addConstant" -> addConstant(W, a[1], a[2])
      [] f = "newClosure" -> newClosure(W, a[1])
      [] f = "expressionStatement" -> expressionStatement(W)
      [] f = "printStatement" -> printStatement(W)
      [] f = "emitByte" -> emitByte(W, a[1])
      [] f = "writeChunk" -> writeChunk(W, a[1], a[2])
      [] f = "newFunction" -> newFunction(W)
      [] f = "newClass" -> newClass(W, a[1])
      [] f = "newInstance" -> newInstance(W, a[1])
      [] f = "newUpvalue" -> newUpvalue(W, a[1])
      [] f = "newBoundMethod" -> newBoundMethod(W, a[1], a[2])
      [] f = "newNative" -> newNative(W, a[1])
      [] f = "allocateObject" -> allocateObject(W, a[1])
      [] f = "writeValueArray" -> writeValueArray(W, a[1], a[2])
      [] f = "reallocate" -> reallocate(W, a[1], a[2])
      [] f = "resolveUpvalue" -> resolveUpvalue(W, a[1], a[2])
      [] f = "argumentList" -> argumentList(W)
      [] f = "argumentLoop" -> argumentLoop(W, a[1])
      [] f = "argumentTurn" -> argumentTurn(W, a[1])
      [] f = "declareVariable" -> declareVariable(W)
      [] f = "block" -> block(W)
      [] f = "blockLoop" -> blockLoop(W, a[1])
      [] f = "grouping" -> grouping(W, a[1])
      [] f = "expression" -> expression(W)
      [] f = "consume" -> consume(W, a[1], a[2])
      [] f = "synchronize" -> synchronize(W)
      [] f = "match" -> match(W, a[1])
      [] f = "advance" -> advance(W)
      [] f = "call" -> call(W, a[1], a[2])
      [] f = "collectGarbage" -> collectGarbage(W)
      [] f = "markRoots" -> markRoots(W)
      [] f = "traceReferences" -> traceReferences(W)
      [] f = "traceSteps" -> traceSteps(W, a[1])
      [] f = "blackenObject" -> blackenObject(W, a[1])
      [] f = "markTable" -> markTable(W, a[1])
      [] f = "markCompilerRoots" -> markCompilerRoots(W)
      [] f = "markArray" -> markArray(W, a[1])
      [] f = "markEach" -> markEach(W, a[1])
      [] f = "markObject" -> markObject(W, a[1])
      [] f = "markValue" -> markValue(W, a[1])
      [] f = "sweep" -> sweep(W)
      [] f = "tableRemoveWhite" -> tableRemoveWhite(W)
      [] f = "addLocal" -> addLocal(W, a[1])
      [] f = "addUpvalue" -> addUpvalue(W, a[1], a[2], a[3])
      [] f = "resolveLocal" -> resolveLocal(W, a[1], a[2])
      [] f = "patchJump" -> patchJump(W, a[1])
      [] f = "markInitialized" -> markInitialized(W)
      [] f = "closeUpvalues" -> closeUpvalues(W, a[1])

OpClosure ==
    /\ Running(OP_CLOSURE)
    /\ \E g \in GcPoints :
         LET W == Fetched(g)
             W1 == Call("newClosure", SkipBytes(W, 1), <<AS_OBJ(PeekConstant(W))>>)
             closure == W1.ret
         IN  Finish(Call("captureLoop", push(W1, OBJ_VAL(closure)), <<closure, 1>>))

OpCloseUpvalue ==
    /\ Running(OP_CLOSE_UPVALUE)
    /\ LET W == Fetched(0) IN Finish(pop(Call("closeUpvalues", W, <<W.vm.stackTop - 1>>)))

\* An OP_RETURN that leaves the stack window of the callee below the result
OpReturn_KeepsWindow ==
    /\ Running(OP_RETURN)
    /\ LET W == Fetched(0)
           value == peek(W, 0)
           slots == Frame(W).slots
           W1 == Call("closeUpvalues", pop(W), <<slots>>)
           W2 == [W1 EXCEPT !.vm.frames = Take(@, Len(@) - 1)]
       IN  Finish(IF Len(W2.vm.frames) = 0 THEN [pop(W2) EXCEPT !.res = "INTERPRET_OK"]
                  ELSE push(W2, value))

OpReturn ==
    /\ Running(OP_RETURN)
    /\ LET W == Fetched(0)
           value == peek(W, 0)
           slots == Frame(W).slots
           W1 == Call("closeUpvalues", pop(W), <<slots>>)
           W2 == [W1 EXCEPT !.vm.frames = Take(@, Len(@) - 1)]
       IN  Finish(IF Len(W2.vm.frames) = 0 THEN [pop(W2) EXCEPT !.res = "INTERPRET_OK"]
                  ELSE push([W2 EXCEPT !.vm.stackTop = slots], value))

OpClass ==
    /\ Running(OP_CLASS)
    /\ \E g \in GcPoints :
         LET W == Fetched(g)
             W1 == Call("newClass", SkipBytes(W, 1), <<AS_OBJ(PeekConstant(W))>>)
         IN  Finish(push(W1, OBJ_VAL(W1.ret)))

(***************************************************************************)
(* Source texts, as the scanner cuts them into tokens.                     *)
(***************************************************************************)
K(type) == <<Token(type, <<>>)>>

Id(lex) == <<Token("TOKEN_IDENTIFIER", lex)>>

\* A string literal: the lexeme includes the quotation marks
Str(chars) == <<Token("TOKEN_STRING", <<34>> \o chars \o <<34>>)>>

Num(lex) == <<Token("TOKEN_NUMBER", lex)>>

LP == K("TOKEN_LEFT_PAREN")

RP == K("TOKEN_RIGHT_PAREN")

LB == K("TOKEN_LEFT_BRACE")

RB == K("TOKEN_RIGHT_BRACE")

SEMI == K("TOKEN_SEMICOLON")

EQ == K("TOKEN_EQUAL")

VAR == K("TOKEN_VAR")

FUN == K("TOKEN_FUN")

PRINT == K("TOKEN_PRINT")

RETURN == K("TOKEN_RETURN")

\* var f; fun outer() { var s = "a" + "b"; fun inner() { return s; } f = inner; nil(); } outer();
SrcLeak ==
    VAR \o Id(<<102>>) \o SEMI
    \o FUN \o Id(<<111>>) \o LP \o RP \o LB
    \o VAR \o Id(<<115>>) \o EQ \o Str(<<97>>) \o K("TOKEN_PLUS") \o Str(<<98>>) \o SEMI
    \o FUN \o Id(<<105>>) \o LP \o RP \o LB \o RETURN \o Id(<<115>>) \o SEMI \o RB
    \o Id(<<102>>) \o EQ \o Id(<<105>>) \o SEMI
    \o K("TOKEN_NIL") \o LP \o RP \o SEMI
    \o RB
    \o Id(<<111>>) \o LP \o RP \o SEMI

\* print f();
SrcUse == PRINT \o Id(<<102>>) \o LP \o RP \o SEMI

\* fun make(x) { fun get() { return x; } return get; } print make(42)();
SrcMake ==
    FUN \o Id(<<109>>) \o LP \o Id(<<120>>) \o RP \o LB
    \o FUN \o Id(<<103>>) \o LP \o RP \o LB \o RETURN \o Id(<<120>>) \o SEMI \o RB
    \o RETURN \o Id(<<103>>) \o SEMI \o RB
    \o PRINT \o Id(<<109>>) \o LP \o Num(<<52, 50>>) \o RP \o LP \o RP \o SEMI

\* { var x = 1; fun g() { return x; } fun h() { x = 2; } h(); print g(); x = 3; print g(); }
SrcShare ==
    LB \o VAR \o Id(<<120>>) \o EQ \o Num(<<49>>) \o SEMI
    \o FUN \o Id(<<103>>) \o LP \o RP \o LB \o RETURN \o Id(<<120>>) \o SEMI \o RB
    \o FUN \o Id(<<104>>) \o LP \o RP \o LB \o Id(<<120>>) \o EQ \o Num(<<50>>) \o SEMI \o RB
    \o Id(<<104>>) \o LP \o RP \o SEMI
    \o PRINT \o Id(<<103>>) \o LP \o RP \o SEMI
    \o Id(<<120>>) \o EQ \o Num(<<51>>) \o SEMI
    \o PRINT \o Id(<<103>>) \o LP \o RP \o SEMI
    \o RB

\* var s = "a" + "b";
SrcConcat ==
    VAR \o Id(<<115>>) \o EQ \o Str(<<97>>) \o K("TOKEN_PLUS") \o Str(<<98>>) \o SEMI

\* print s == "ab";
SrcSame == PRINT \o Id(<<115>>) \o K("TOKEN_EQUAL_EQUAL") \o Str(<<97, 98>>) \o SEMI

\* var i = 0; while (i < 1) i = i + 1; if (i > 0) print -i * 2 - 1; print !true == false;
SrcFlow ==
    VAR \o Id(<<105>>) \o EQ \o Num(<<48>>) \o SEMI
    \o K("TOKEN_WHILE") \o LP \o Id(<<105>>) \o K("TOKEN_LESS") \o Num(<<49>>) \o RP
    \o Id(<<105>>) \o EQ \o Id(<<105>>) \o K("TOKEN_PLUS") \o Num(<<49>>) \o SEMI
    \o K("TOKEN_IF") \o LP \o Id(<<105>>) \o K("TOKEN_GREATER") \o Num(<<48>>) \o RP
    \o PRINT \o K("TOKEN_MINUS") \o Id(<<105>>) \o K("TOKEN_STAR") \o Num(<<50>>)
    \o K("TOKEN_MINUS") \o Num(<<49>>) \o SEMI
    \o PRINT \o K("TOKEN_BANG") \o K("TOKEN_TRUE") \o K("TOKEN_EQUAL_EQUAL") \o K("TOKEN_FALSE") \o SEMI

\* class A {} var a = A(); a.x = 1; print a.x;
SrcClass ==
    K("TOKEN_CLASS") \o Id(<<65>>) \o LB \o RB
    \o VAR \o Id(<<97>>) \o EQ \o Id(<<65>>) \o LP \o RP \o SEMI
    \o Id(<<97>>) \o K("TOKEN_DOT") \o Id(<<120>>) \o EQ \o Num(<<49>>) \o SEMI
    \o PRINT \o Id(<<97>>) \o K("TOKEN_DOT") \o Id(<<120>>) \o SEMI

\* class B { greet() { print "hi"; } }
SrcMethod ==
    K("TOKEN_CLASS") \o Id(<<66>>) \o LB
    \o Id(<<103>>) \o LP \o RP \o LB \o PRINT \o Str(<<104, 105>>) \o SEMI \o RB
    \o RB

\* print 1 + ; print @;      (@ is not a character of the language)
SrcBad ==
    PRINT \o Num(<<49>>) \o K("TOKEN_PLUS") \o SEMI
    \o PRINT \o K("TOKEN_ERROR") \o SEMI

\* print 1;
SrcOne == PRINT \o Num(<<49>>) \o SEMI

\* class A {} class B < A {}
SrcInherit ==
    K("TOKEN_CLASS") \o Id(<<65>>) \o LB \o RB
    \o K("TOKEN_CLASS") \o Id(<<66>>) \o K("TOKEN_LESS") \o Id(<<65>>) \o LB \o RB

\* class C { init(n) { this.n = n; } } print C(1).n;
SrcInit ==
    K("TOKEN_CLASS") \o Id(<<67>>) \o LB
    \o Id(<<105, 110, 105, 116>>) \o LP \o Id(<<110>>) \o RP \o LB
    \o K("TOKEN_THIS") \o K("TOKEN_DOT") \o Id(<<110>>) \o EQ \o Id(<<110>>) \o SEMI \o RB
    \o RB
    \o PRINT \o Id(<<67>>) \o LP \o Num(<<49>>) \o RP \o K("TOKEN_DOT") \o Id(<<110>>) \o SEMI

\* a * b = c;
SrcAssign ==
    Id(<<97>>) \o K("TOKEN_STAR") \o Id(<<98>>) \o EQ \o Id(<<99>>) \o SEMI

\* print + 1 @ ; print ;      (@ is not a character of the language)
SrcPanic ==
    PRINT \o K("TOKEN_PLUS") \o Num(<<49>>) \o K("TOKEN_ERROR") \o SEMI
    \o PRINT \o SEMI

\* fun f() { f(); } f();
SrcDeep ==
    FUN \o Id(<<102>>) \o LP \o RP \o LB \o Id(<<102>>) \o LP \o RP \o SEMI \o RB
    \o Id(<<102>>) \o LP \o RP \o SEMI

\* var y = 1; x = 2;
SrcSetUndefined ==
    VAR \o Id(<<121>>) \o EQ \o Num(<<49>>) \o SEMI
    \o Id(<<120>>) \o EQ \o Num(<<50>>) \o SEMI

\* print y; print x;
SrcGetUndefined == PRINT \o Id(<<121>>) \o SEMI \o PRINT \o Id(<<120>>) \o SEMI

Sessions ==
    {<<SrcLeak, SrcUse>>, <<SrcMake>>, <<SrcShare>>, <<SrcConcat, SrcSame>>, <<SrcFlow>>,
     <<SrcClass, SrcMethod>>, <<SrcBad, SrcOne>>, <<SrcInherit, SrcInit>>, <<SrcAssign>>,
     <<SrcPanic>>, <<SrcDeep>>, <<SrcSetUndefined, SrcGetUndefined>>}

Init == InitWith(Sessions)

Next ==
    \/ Interpret
    \/ CompileDeclaration
    \/ CompileEnd
    \/ OpConstant
    \/ OpNil
    \/ OpTrue
    \/ OpFalse
    \/ OpPop
    \/ OpGetLocal
    \/ OpSetLocal
    \/ OpGetGlobal
    \/ OpDefineGlobal
    \/ OpSetGlobal
    \/ OpGetUpvalue
    \/ OpSetUpvalue
    \/ OpGetProperty
    \/ OpSetProperty
    \/ OpEqual
    \/ OpGreater
    \/ OpLess
    \/ OpAdd
    \/ OpSubtract
    \/ OpMultiply
    \/ OpNot
    \/ OpNegate
    \/ OpPrint
    \/ OpJump
    \/ OpJumpIfFalse
    \/ OpLoop
    \/ OpCall
    \/ OpClosure
    \/ OpCloseUpvalue
    \/ OpReturn
    \/ OpClass

Spec == Init /\ [][Next]_vars

(***************************************************************************)
(* Reachability, for the properties of the collector.                      *)
(***************************************************************************)
\* The objects a table refers to: its keys and the objects of its values
TableRefs(table) ==
    UNION {{table.entries[i].key, ObjOf(table.entries[i].value)} :
             i \in 1..Len(table.entries)} \ {0}

\* The objects that the object at o refers to, by its type
Refs(h, o) ==
    LET obj == h[o] IN
    (CASE obj.type = "OBJ_BOUND_METHOD" -> {ObjOf(obj.receiver), obj.method}
       [] obj.type = "OBJ_CLASS" -> {obj.name} \cup TableRefs(obj.methods)
       [] obj.type = "OBJ_CLOSURE" -> {obj.function} \cup Range(obj.upvalues)
       [] obj.type = "OBJ_FUNCTION" ->
            {obj.name} \cup {ObjOf(obj.chunk.constants.values[i]) :
                               i \in 1..Len(obj.chunk.constants.values)}
       [] obj.type = "OBJ_INSTANCE" -> {obj.klass} \cup TableRefs(obj.fields)
       [] obj.type = "OBJ_UPVALUE" -> {ObjOf(obj.closed)}
       [] OTHER -> {}) \ {0}

\* The root set of a VM v with heap h and compiler chain c
Roots(v, h, c) ==
    ({ObjOf(v.stack[i]) : i \in 1..v.stackTop}
       \cup {v.frames[i].closure : i \in 1..Len(v.frames)}
       \cup Range(UpvalueList(h, v.openUpvalues))
       \cup TableRefs(v.globals)
       \cup {c[i].function : i \in 1..Len(c)}
       \cup {v.initString}) \ {0}

RECURSIVE ReachFrom(_, _)
\* The objects reachable from the set S along Refs
ReachFrom(h, S) ==
    LET T == S \cup UNION {Refs(h, o) : o \in S}
    IN  IF T = S THEN S ELSE ReachFrom(h, T)

Reach(v, h, c) == ReachFrom(h, Roots(v, h, c))

\* The last collection of the step that led to this state, if there was one
Collected == gclog.n > 0

Pre == gclog.pre[1]

Events(e) == SelectSeq(gclog.events, LAMBDA x : x.e = e)

(***************************************************************************)
(* Properties.                                                             *)
(***************************************************************************)
\* C1: the program never dereferences an object that a collection has
\* freed: every object used after a safepoint was reachable from the roots
\* at that safepoint, so no read of freed memory (fault) ever occurs.
C1_NoUseOfFreedObject == fault = ""

\* C2: when the gray stack has drained, the marked objects are exactly the
\* objects reachable from the roots; the sweep frees exactly the unmarked
\* objects, and the object list afterwards holds exactly the reachable ones.
C2_MarkedIsReachable ==
    (Collected /\ fault = "") =>
        LET reach == Reach(Pre.vm, Pre.heap, Pre.current)
            all == Range(Pre.vm.objects)
        IN  /\ gclog.marked = reach
            /\ Range(gclog.kept) = reach
            /\ {x.o : x \in Range(Events("free"))} = all \ reach
            /\ \A o \in all : IsFreed(heap, o) <=> o \notin reach

\* A collection that freed an object and kept others
C2_Witness ==
    /\ Collected
    /\ fault = ""
    /\ Events("free") # <<>>
    /\ gclog.kept # <<>>

\* The String objects on the list of all objects
LiveStrings == {o \in Range(vm.objects) : heap[o].type = "OBJ_STRING"}

\* C3: no two distinct live String objects have identical bytes, whatever
\* copyString, takeString (concatenation) and collections have run: equal
\* content is the same object.
C3_InternedStringsAreUnique ==
    fault = "" => \A a, b \in LiveStrings : heap[a].chars = heap[b].chars => a = b

\* "a" + "b" was made by concatenation, "ab" was then read from the source,
\* and the comparison by reference printed true
C3_Witness ==
    /\ out = <<<<116, 114, 117, 101>>>>
    /\ runs = 2
    /\ \E o \in LiveStrings : heap[o].chars = <<97, 98>>

\* C4: in every collection the white keys leave the intern table after the
\* gray stack has drained (after every mark) and before any object is freed;
\* afterwards the intern table holds no key that refers to a freed string.
C4_PurgeBetweenMarkAndFree ==
    /\ Collected =>
         \A i, j \in 1..Len(gclog.events) :
            gclog.events[i].e = "purge" =>
               /\ gclog.events[i].gray = 0
               /\ gclog.events[j].e = "mark" => j < i
               /\ gclog.events[j].e = "free" => i < j
    /\ \A k \in 1..Len(vm.strings.entries) :
          vm.strings.entries[k].key # 0 => ~IsFreed(heap, vm.strings.entries[k].key)

\* A collection that removed a string from the intern table and freed it
C4_Witness ==
    /\ Collected
    /\ \E x \in Range(Events("purge")) :
          /\ IsFreed(heap, x.o)
          /\ \E y \in Range(Events("free")) : y.o = x.o

\* The closures on the list of all objects
LiveClosures == {o \in Range(vm.objects) : heap[o].type = "OBJ_CLOSURE"}

\* C5: the open list never holds two upvalues for one stack slot (it is
\* strictly ordered by slot), so closures that capture the same live
\* variable hold the same Upvalue object.
C5_OneUpvaluePerSlot ==
    fault = "" =>
      LET open == UpvalueList(heap, vm.openUpvalues) IN
      /\ \A i, j \in 1..Len(open) : i < j => heap[open[i]].location > heap[open[j]].location
      /\ \A c, d \in LiveClosures :
           \A i \in 1..Len(heap[c].upvalues), j \in 1..Len(heap[d].upvalues) :
              LET u == heap[c].upvalues[i]
                  v == heap[d].upvalues[j]
              IN  (u # 0 /\ v # 0 /\ heap[u].location >= 0
                     /\ heap[u].location = heap[v].location) => u = v

\* Two closures hold the same upvalue; the write made through one was read
\* through the other (2), and so was the write to the variable itself (3)
C5_Witness ==
    /\ \E c, d \in LiveClosures : c # d /\ heap[c].upvalues # <<>>
                                    /\ heap[c].upvalues = heap[d].upvalues
    /\ out = <<<<50>>, <<51>>>>

\* C6: over any sequence of interpret calls, runtime errors included, every
\* upvalue of a live closure whose location still points into the value
\* stack points at a slot owned by a live call frame.
C6_OpenUpvaluesPointIntoLiveFrames ==
    fault = "" =>
      \A c \in LiveClosures :
         \A i \in 1..Len(heap[c].upvalues) :
            LET u == heap[c].upvalues[i]
            IN  (u # 0 /\ heap[u].location >= 0) =>
                   /\ vm.frames # <<>>
                   /\ heap[u].location < vm.stackTop

\* The boundary that the instruction about to run passes to closeUpvalues,
\* or -1 when it does not call it
Boundary ==
    IF Running(OP_RETURN) THEN vm.frames[Len(vm.frames)].slots
    ELSE IF Running(OP_CLOSE_UPVALUE) THEN vm.stackTop - 1
    ELSE -1

\* The upvalues that are closed
ClosedUpvalues == {u \in 1..Len(heap) : heap[u].type = "OBJ_UPVALUE" /\ heap[u].location = -1}

\* One step closes every open upvalue at or above the boundary with the
\* value of its slot, leaves the others open, and changes a closed upvalue
\* only by an assignment through it
C7_Step ==
    /\ \A u \in Range(UpvalueList(heap, vm.openUpvalues)) :
          heap'[u].type = "OBJ_UPVALUE" =>
             IF Boundary >= 0 /\ heap[u].location >= Boundary
             THEN /\ heap'[u].location = -1
                  /\ heap'[u].closed = vm.stack[heap[u].location + 1]
             ELSE heap'[u].location = heap[u].location
    /\ \A u \in ClosedUpvalues :
          heap'[u].type = "OBJ_UPVALUE" =>
             /\ heap'[u].location = -1
             /\ heap'[u].closed # heap[u].closed => Running(OP_SET_UPVALUE)

\* The closure that make(42) returned has run and returned
MakeHasRun ==
    /\ pc = "idle"
    /\ result = "INTERPRET_OK"
    /\ \E u \in ClosedUpvalues : heap[u].closed = NUMBER_VAL(42)

\* C7: closeUpvalues(boundary) closes every open upvalue at or above the
\* boundary and none below; a closed upvalue keeps the value its slot held,
\* whatever is written to the stack later, so make(42)() yields 42.
C7_CloseUpvalues ==
    /\ [][C7_Step]_vars
    /\ [](MakeHasRun => out = <<<<52, 50>>>>)

\* make(42)() has printed 42 through the closed upvalue
C7_Witness == MakeHasRun /\ out = <<<<52, 50>>>>

\* interpret has returned
Returned == pc = "idle" /\ runs > 0

\* C8: every call of interpret returns with the value stack empty and no
\* call frame, whichever status it returns; a runtime error returns
\* RuntimeError after a message, a successful run returns OK.
C8_InterpretLeavesStacksEmpty ==
    Returned =>
       /\ vm.stackTop = 0
       /\ vm.frames = <<>>
       /\ result \in {"INTERPRET_OK", "INTERPRET_COMPILE_ERROR", "INTERPRET_RUNTIME_ERROR"}
       /\ result = "INTERPRET_RUNTIME_ERROR" => err # <<>>

\* interpret has returned after a runtime error raised inside a call
C8_Witness ==
    /\ Returned
    /\ result = "INTERPRET_RUNTIME_ERROR"
    /\ err = <<"Can only call functions and classes.">>

\* The VM state that a failed compilation must leave alone
Untouched ==
    /\ vm'.globals = vm.globals
    /\ vm'.stackTop = vm.stackTop
    /\ vm'.frames = vm.frames
    /\ \A i \in 1..vm.stackTop : vm'.stack[i] = vm.stack[i]

\* One step of interpret up to the return of compile
C9_Step ==
    /\ (pc = "idle" /\ pc' = "compile") =>
          (parser'.hadError <=> Len(err') > Len(err))
    /\ (pc = "compile" /\ pc' = "compile") =>
          (parser'.hadError <=> (parser.hadError \/ Len(err') > Len(err)))
    /\ (pc = "compile" /\ pc' \in {"idle", "run"}) =>
          /\ parser.hadError <=> (pc' = "idle" /\ result' = "INTERPRET_COMPILE_ERROR")
          /\ ~parser.hadError => pc' = "run"
    /\ (pc \in {"idle", "compile"} /\ pc' \in {"idle", "compile"}) => Untouched

\* C9: compile returns null exactly when a diagnostic was reported (the
\* error flag is never cleared during a compilation); interpret then returns
\* CompileError and leaves the globals, the value stack and the frames as
\* they were.
C9_CompileErrorIffDiagnostic == [][C9_Step]_vars

\* interpret has returned CompileError after two diagnostics
C9_Witness ==
    /\ Returned
    /\ result = "INTERPRET_COMPILE_ERROR"
    /\ Len(err) = 2
    /\ parser.hadError

\* The source declares a class whose body starts with a method
DeclaresMethod(source) ==
    \E i \in 1..Len(source) - 3 :
       /\ source[i].type = "TOKEN_CLASS"
       /\ source[i + 1].type = "TOKEN_IDENTIFIER"
       /\ source[i + 2].type = "TOKEN_LEFT_BRACE"
       /\ source[i + 3].type = "TOKEN_IDENTIFIER"

\* C10: a class declaration whose body contains method declarations
\* compiles without error.
C10_ClassWithMethodsCompiles ==
    (Returned /\ DeclaresMethod(scanner.source)) =>
        /\ result # "INTERPRET_COMPILE_ERROR"
        /\ err = <<>>

\* The source declares a class with a superclass clause
DeclaresSubclass(source) ==
    \E i \in 1..Len(source) - 3 :
       /\ source[i].type = "TOKEN_CLASS"
       /\ source[i + 1].type = "TOKEN_IDENTIFIER"
       /\ source[i + 2].type = "TOKEN_LESS"
       /\ source[i + 3].type = "TOKEN_IDENTIFIER"

\* C11: a class declaration with a  < ParentName  clause compiles (to code
\* that pushes the parent and the child and executes INHERIT).
C11_SubclassCompiles ==
    (Returned /\ DeclaresSubclass(scanner.source)) =>
        /\ result = "INTERPRET_OK"
        /\ err = <<>>

\* The source declares a class whose first method is init
DeclaresInit(source) ==
    \E i \in 1..Len(source) - 3 :
       /\ source[i].type = "TOKEN_CLASS"
       /\ source[i + 2].type = "TOKEN_LEFT_BRACE"
       /\ source[i + 3] = Token("TOKEN_IDENTIFIER", <<105, 110, 105, 116>>)

\* C12: calling a class that defines init creates an instance, runs init
\* with the arguments and with the instance as this, and evaluates to that
\* instance: the field that init assigned through this is read on the
\* result (C(1).n prints 1).
C12_InitRunsOnConstruction ==
    (Returned /\ DeclaresInit(scanner.source)) =>
        /\ result = "INTERPRET_OK"
        /\ out = <<<<49>>>>

\* The source assigns to the right operand of a product
AssignsToProduct(source) ==
    \E i \in 1..Len(source) - 2 :
       /\ source[i].type = "TOKEN_STAR"
       /\ source[i + 1].type = "TOKEN_IDENTIFIER"
       /\ source[i + 2].type = "TOKEN_EQUAL"

\* The code of the functions on the heap holds the opcode op
Emitted(op) ==
    \E o \in 1..Len(heap) :
       /\ heap[o].type = "OBJ_FUNCTION"
       /\ \E i \in 1..Len(heap[o].chunk.code) : heap[o].chunk.code[i] = op

\* C18: an = that follows an operand parsed above the precedence of
\* assignment is not consumed by that operand: a * b = c; is reported as
\* "Invalid assignment target.", nothing is assigned and compilation fails.
C18_InvalidAssignmentTarget ==
    (runs > 0 /\ AssignsToProduct(scanner.source) /\ pc # "compile") =>
        /\ Returned
        /\ result = "INTERPRET_COMPILE_ERROR"
        /\ err = <<"Invalid assignment target.">>
        /\ ~Emitted(OP_SET_GLOBAL)

\* a * b = c; has been rejected
C18_Witness ==
    /\ Returned
    /\ scanner.source = SrcAssign
    /\ err = <<"Invalid assignment target.">>
    /\ Emitted(OP_MULTIPLY)

\* One declaration of the loop of compile() and the synchronization after it
C19_Step ==
    (pc = "compile" /\ pc' = "compile") =>
        /\ Len(err') <= Len(err) + 1
        /\ ~parser'.panicMode

\* C19: after the first error of a statement no further diagnostic is
\* reported until the parser has reached a synchronization point, and panic
\* mode is cleared after synchronizing.
C19_OneDiagnosticPerStatement == [][C19_Step]_vars

\* C17: a call with 64 active frames (the script's included) raises
\* "Stack overflow.", a call with fewer is accepted, and the frame count
\* never exceeds 64.
C17_Step ==
    (Running(OP_CALL) /\ IsObjType(heap, vm.stack[vm.stackTop], "OBJ_CLOSURE")) =>
        IF Len(vm.frames) < 64
        THEN /\ Len(vm'.frames) = Len(vm.frames) + 1
             /\ err' = err
             /\ pc' = "run"
        ELSE /\ err' = Append(err, "Stack overflow.")
             /\ result' = "INTERPRET_RUNTIME_ERROR"
             /\ pc' = "idle"

C17_CallDepth64Accepted ==
    /\ [](Len(vm.frames) <= 64)
    /\ [][C17_Step]_vars

\* The 64th frame was accepted and the call of the 65th has failed
C17_Witness ==
    /\ Returned
    /\ err = <<"Stack overflow.">>
    /\ Len(vm.stack) = FRAMES_MAX + 1

\* The k-th byte after the opcode that run() is at, and the constant it names
OperandByte(k) ==
    heap[heap[vm.frames[Len(vm.frames)].closure].function].chunk.code[vm.frames[Len(vm.frames)].ip + 1 + k]

OperandConstant ==
    heap[heap[vm.frames[Len(vm.frames)].closure].function].chunk.constants.values[OperandByte(1) + 1]

\* The bindings of a table: the pairs of a key and its value
Bindings(table) ==
    {<<table.entries[i].key, table.entries[i].value>> :
        i \in {j \in 1..Len(table.entries) : table.entries[j].key # 0}}

Bound(table, key) == \E b \in Bindings(table) : b[1] = key

\* The step is a runtime error with this message
RuntimeErrorStep(message) ==
    /\ err' = Append(err, message)
    /\ result' = "INTERPRET_RUNTIME_ERROR"
    /\ pc' = "idle"

\* A global variable named x is read or assigned
C21_Step ==
    LET name == AS_OBJ(OperandConstant)
        undefined == "Undefined variable '" \o FormatS(heap[name].chars) \o "'."
    IN  /\ (Running(OP_GET_GLOBAL) /\ ~Bound(vm.globals, name)) =>
              /\ RuntimeErrorStep(undefined)
              /\ Bindings(vm'.globals) = Bindings(vm.globals)
        /\ (Running(OP_GET_GLOBAL) /\ Bound(vm.globals, name)) =>
              /\ err' = err
              /\ pc' = "run"
              /\ <<name, vm'.stack[vm'.stackTop]>> \in Bindings(vm.globals)
        /\ (Running(OP_SET_GLOBAL) /\ ~Bound(vm.globals, name)) =>
              /\ RuntimeErrorStep(undefined)
              /\ Bindings(vm'.globals) = Bindings(vm.globals)
              /\ ~tableGet(heap', vm'.globals, name).found

\* C21: reading or assigning a global name that was never defined is the
\* runtime error "Undefined variable '<name>'."; the failed assignment
\* leaves the name undefined and changes no other global binding.
C21_UndefinedGlobal == [][C21_Step]_vars

\* x = 2 has failed, and in the next interpret print y has printed 1 and
\* print x has failed again
C21_Witness ==
    /\ Returned
    /\ runs = 2
    /\ err = <<"Undefined variable 'x'.", "Undefined variable 'x'.">>
    /\ out = <<<<49>>>>
    /\ \E b \in Bindings(vm.globals) : heap[b[1]].chars = <<121>> /\ b[2] = NUMBER_VAL(1)

(***************************************************************************)
(* The limits of the compiler: sources with up to MaxLocals locals in one  *)
(* block, MaxConstants constants in one chunk, MaxArgs arguments in a call *)
(***************************************************************************)
\* { var aa; var ab; ... }  with n declarations of distinct names
SrcLocals(n) ==
    LB \o SeqOf([i \in 1..3 * n |->
                   IF i % 3 = 1 THEN Token("TOKEN_VAR", <<>>)
                   ELSE IF i % 3 = 2
                   THEN Token("TOKEN_IDENTIFIER", <<97 + ((i \div 3) \div 26), 97 + ((i \div 3) % 26)>>)
                   ELSE Token("TOKEN_SEMICOLON", <<>>)]) \o RB

\* 1; 1; ...  with n statements
SrcConstants(n) ==
    SeqOf([i \in 1..2 * n |->
             IF i % 2 = 1 THEN Token("TOKEN_NUMBER", <<49>>) ELSE Token("TOKEN_SEMICOLON", <<>>)])

\* f(nil, nil, ...);  with n arguments
SrcArgs(n) ==
    Id(<<102>>) \o LP
    \o SeqOf([i \in 1..2 * n - 1 |->
                IF i % 2 = 1 THEN Token("TOKEN_NIL", <<>>) ELSE Token("TOKEN_COMMA", <<>>)])
    \o RP \o SEMI

LimitSessions ==
    {<<SrcLocals(n)>> : n \in 255..MaxLocals}
       \cup {<<SrcConstants(MaxConstants)>>}
       \cup {<<SrcArgs(n)>> : n \in 254..MaxArgs}

LimitInit == InitWith(LimitSessions)

LimitNext == Interpret \/ CompileDeclaration \/ CompileEnd

LimitSpec == LimitInit /\ [][LimitNext]_vars

\* compile has returned for the source
Compiled(source) == runs > 0 /\ scanner.source = source /\ pc \in {"run", "idle"}

\* C13: the 256th local that the program declares in one function compiles
\* without error, and the 257th is reported as a compile error.
C13_Locals256Accepted ==
    /\ Compiled(SrcLocals(256)) => pc = "run" /\ err = <<>>
    /\ Compiled(SrcLocals(257)) => result = "INTERPRET_COMPILE_ERROR"

\* The chunk of the script that is being compiled
ScriptChunk == heap[current[1].function].chunk

\* The source of the constants is being compiled
CompilingConstants ==
    /\ pc = "compile"
    /\ scanner.source # <<>>
    /\ scanner.source[1].type = "TOKEN_NUMBER"

\* C14: a chunk takes 256 constants without error and the 257th is a
\* compile error, as is every constant after it; every byte of the code,
\* the constant indices included, is below 256, also after the overflow
\* was reported.
C14_Constants256Accepted ==
    /\ \A o \in 1..Len(heap) :
          heap[o].type = "OBJ_FUNCTION" =>
             \A i \in 1..Len(heap[o].chunk.code) : heap[o].chunk.code[i] \in 0..255
    /\ CompilingConstants =>
          LET n == Len(ScriptChunk.constants.values)
              code == ScriptChunk.code
          IN  /\ parser.hadError <=> n > 256
              /\ Len(err) = IF n > 256 THEN n - 256 ELSE 0
              /\ \A i \in 1..Len(err) : err[i] = "Too many constants in one chunk."
              /\ n > 0 =>
                   /\ code[Len(code) - 2] = OP_CONSTANT
                   /\ code[Len(code) - 1] = IF n > 256 THEN 0 ELSE n - 1

\* The 256th constant was accepted and the 257th has just been rejected
C14_Witness ==
    /\ CompilingConstants
    /\ Len(ScriptChunk.constants.values) = 257
    /\ err = <<"Too many constants in one chunk.">>

\* The arguments of the call of a source SrcArgs(n), or 0
ArgsOf(source) ==
    IF Len(source) > 4 /\ source[2].type = "TOKEN_LEFT_PAREN" /\ source[3].type = "TOKEN_NIL"
    THEN (Len(source) - 3) \div 2
    ELSE 0

\* The call statement of a source SrcArgs(n) has been compiled
CompiledCall ==
    /\ pc = "compile"
    /\ parser.current.type = "TOKEN_EOF"
    /\ ArgsOf(scanner.source) > 0

\* C15: a call with 255 arguments compiles, and the operand of its CALL is
\* 255; a call with 256 arguments or more is a compile error.
C15_Args255Accepted ==
    CompiledCall =>
       LET n == ArgsOf(scanner.source)
           code == ScriptChunk.code
       IN  IF n <= 255
           THEN /\ ~parser.hadError
                /\ code[2 + n + 1] = OP_CALL
                /\ code[2 + n + 2] = n
           ELSE /\ parser.hadError
                /\ err = <<"Can't have more than 255 arguments.">>

\* A call with 255 arguments has been compiled without error
C15_Witness ==
    /\ CompiledCall
    /\ ArgsOf(scanner.source) = 255
    /\ ~parser.hadError
    /\ ScriptChunk.code[2 + 255 + 2] = 255

(***************************************************************************)
(* The limit of a jump: patchJump and emitLoop in chunks of about          *)
(* UINT16_MAX bytes, as functions of the chunk's count and of the offset.  *)
(***************************************************************************)
LongCounts == (UINT16_MAX - 4)..(UINT16_MAX - 4 + JumpSlack)

JumpInit ==
    /\ InitAs(Call("initVM", BlankWorld, <<>>))
    /\ pc = "idle"
    /\ result = "NONE"
    /\ runs = 0
    /\ input = <<>>
    /\ \E count \in LongCounts, offset \in 0..MaxOffset :
          probe = [f |-> "compile", count |-> count, offset |-> offset]

\* patchJump(offset) in a chunk of count bytes
PatchJump ==
    /\ probe.f = "compile"
    /\ probe' = [f |-> "patchJump", count |-> probe.count, offset |-> probe.offset,
                 ret |-> jumpOperand(jumpDistance(probe.count, probe.offset))]
    /\ UNCHANGED <<vm, heap, parser, scanner, current, out, err, pc, result, gclog, fault, runs, input>>

\* emitLoop(loopStart) in a chunk of count bytes: OP_LOOP is written first
EmitLoop ==
    /\ probe.f = "compile"
    /\ probe' = [f |-> "emitLoop", count |-> probe.count, offset |-> probe.offset,
                 ret |-> jumpOperand(loopDistance(probe.count + 1, probe.offset))]
    /\ UNCHANGED <<vm, heap, parser, scanner, current, out, err, pc, result, gclog, fault, runs, input>>

JumpNext == PatchJump \/ EmitLoop

JumpSpec == JumpInit /\ [][JumpNext]_vars

\* The bytes between the operand of the jump and the end of the chunk, and
\* between the start of the loop and the end of the operand of OP_LOOP
Distance ==
    IF probe.f = "patchJump" THEN probe.count - (probe.offset + 2)
    ELSE (probe.count + 3) - probe.offset

And16(a, b) ==
    LET f[i \in 0..16] == IF i = 16 THEN 0 ELSE Bit(a, 2^i) * Bit(b, 2^i) * 2^i + f[i + 1]
    IN  f[0]

Or16(a, b) == a + b - And16(a, b)

And64(a, b) == [i \in 1..4 |-> And16(a[i], b[i])]

Or64(a, b) == [i \in 1..4 |-> Or16(a[i], b[i])]

\* (uint64_t) n for a small n
Word(n) == <<0, 0, 0, n>>

SIGN_BIT == <<32768, 0, 0, 0>>

QNAN == <<32764, 0, 0, 0>>

TAG_NIL == 1

TAG_FALSE == 2

TAG_TRUE == 3

\* The doubles: x is a NaN when its exponent is all ones and its fraction
\* is not zero, a zero when all bits but the sign are zero
IsNaN(x) == And16(x[1], 32752) = 32752 /\ (And16(x[1], 15) # 0 \/ x[2] # 0 \/ x[3] # 0 \/ x[4] # 0)

IsZero(x) == And16(x[1], 32767) = 0 /\ x[2] = 0 /\ x[3] = 0 /\ x[4] = 0

\* x == y of C for doubles
DoubleEq(x, y) == ~IsNaN(x) /\ ~IsNaN(y) /\ (x = y \/ (IsZero(x) /\ IsZero(y)))

\* The macros with NAN_BOXING defined
NB_FALSE_VAL == Or64(QNAN, Word(TAG_FALSE))

NB_TRUE_VAL == Or64(QNAN, Word(TAG_TRUE))

NB_NIL_VAL == Or64(QNAN, Word(TAG_NIL))

NB_BOOL_VAL(b) == IF b THEN NB_TRUE_VAL ELSE NB_FALSE_VAL

NB_NUMBER_VAL(num) == num

NB_OBJ_VAL(obj) == Or64(Or64(SIGN_BIT, QNAN), Word(obj))

NB_IS_NUMBER(value) == And64(value, QNAN) # QNAN

NB_AS_NUMBER(value) == value

\* A valuesEqual that compares the words only
valuesEqual_Bitwise(a, b) == a = b

\* valuesEqual with NAN_BOXING defined
valuesEqual_NAN_BOXING(a, b) ==
    IF NB_IS_NUMBER(a) /\ NB_IS_NUMBER(b) THEN DoubleEq(NB_AS_NUMBER(a), NB_AS_NUMBER(b))
    ELSE a = b

\* The macros without NAN_BOXING: a Value is a struct of a type and a union
TU_BOOL_VAL(value) == [type |-> "VAL_BOOL", as |-> value]

TU_NIL_VAL == [type |-> "VAL_NIL", as |-> Word(0)]

TU_NUMBER_VAL(value) == [type |-> "VAL_NUMBER", as |-> value]

TU_OBJ_VAL(object) == [type |-> "VAL_OBJ", as |-> object]

\* valuesEqual without NAN_BOXING
valuesEqual_TAGGED(a, b) ==
    IF a.type # b.type THEN FALSE
    ELSE CASE a.type = "VAL_BOOL" -> a.as = b.as
           [] a.type = "VAL_NIL" -> TRUE
           [] a.type = "VAL_NUMBER" -> DoubleEq(a.as, b.as)
           [] a.type = "VAL_OBJ" -> a.as = b.as
           [] OTHER -> FALSE

\* The doubles that a program can compute: 0, -0, 0.5, 1, 2, the
\* infinities (1 / 0, -1 / 0) and the NaN of 0 / 0, with either sign
Doubles ==
    {<<0, 0, 0, 0>>, <<32768, 0, 0, 0>>, <<16352, 0, 0, 0>>, <<16368, 0, 0, 0>>,
     <<16384, 0, 0, 0>>, <<32752, 0, 0, 0>>, <<65520, 0, 0, 0>>, <<32760, 0, 0, 0>>,
     <<65528, 0, 0, 0>>}

\* The values of the language, as the structs of the build without NAN_BOXING
Values ==
    {TU_NIL_VAL, TU_BOOL_VAL(TRUE), TU_BOOL_VAL(FALSE)}
       \cup {TU_NUMBER_VAL(x) : x \in Doubles}
       \cup {TU_OBJ_VAL(o) : o \in 1..MaxObjects}

\* The same value in the build with NAN_BOXING
Boxed(value) ==
    CASE value.type = "VAL_BOOL" -> NB_BOOL_VAL(value.as)
      [] value.type = "VAL_NIL" -> NB_NIL_VAL
      [] value.type = "VAL_NUMBER" -> NB_NUMBER_VAL(value.as)
      [] value.type = "VAL_OBJ" -> NB_OBJ_VAL(value.as)

EqualInit ==
    /\ InitAs(Call("initVM", BlankWorld, <<>>))
    /\ pc = "idle"
    /\ result = "NONE"
    /\ runs = 0
    /\ input = <<>>
    /\ \E a \in Values, b \in Values : probe = [f |-> "operands", a |-> a, b |-> b]

\* valuesEqual(a, b) in the build with NAN_BOXING
EqualBoxed ==
    /\ probe.f = "operands"
    /\ probe' = [f |-> "NAN_BOXING", a |-> probe.a, b |-> probe.b,
                 ret |-> valuesEqual_NAN_BOXING(Boxed(probe.a), Boxed(probe.b))]
    /\ UNCHANGED <<vm, heap, parser, scanner, current, out, err, pc, result, gclog, fault, runs, input>>

\* valuesEqual(a, b) in the build without NAN_BOXING
EqualTagged ==
    /\ probe.f = "operands"
    /\ probe' = [f |-> "TAGGED", a |-> probe.a, b |-> probe.b,
                 ret |-> valuesEqual_TAGGED(probe.a, probe.b)]
    /\ UNCHANGED <<vm, heap, parser, scanner, current, out, err, pc, result, gclog, fault, runs, input>>

EqualNext == EqualBoxed \/ EqualTagged

EqualSpec == EqualInit /\ [][EqualNext]_vars

\* The law of equality: both are numbers and numerically equal (no NaN is),
\* or both have the same other type and the same content
EqualityLaw(a, b) ==
    \/ /\ a.type = "VAL_NUMBER"
       /\ b.type = "VAL_NUMBER"
       /\ ~IsNaN(a.as)
       /\ ~IsNaN(b.as)
       /\ a.as = b.as \/ (IsZero(a.as) /\ IsZero(b.as))
    \/ /\ a.type # "VAL_NUMBER"
       /\ a.type = b.type
       /\ a.type = "VAL_NIL" \/ a.as = b.as

\* C20: valuesEqual(a, b) is true exactly when the law of equality holds
\* for a and b, a NaN being equal to nothing, under the NaN-boxed and under
\* the tagged-union representation alike.
C20_ValuesEqualLaw ==
    probe.f \in {"NAN_BOXING", "TAGGED"} => (probe.ret <=> EqualityLaw(probe.a, probe.b))

\* A NaN was compared with itself in the NaN-boxed build: not equal
C20_Witness ==
    /\ probe.f = "NAN_BOXING"
    /\ probe.a = probe.b
    /\ probe.a.type = "VAL_NUMBER"
    /\ IsNaN(probe.a.as)
    /\ probe.ret = FALSE

(***************************************************************************)
(* OP_ADD on every pair of operand kinds: print A + B;                     *)
(***************************************************************************)
\* 1, "a", "", nil, true and the native function clock
AddOperands ==
    {Num(<<49>>), Str(<<97>>), Str(<<>>), K("TOKEN_NIL"), K("TOKEN_TRUE"),
     Id(<<99, 108, 111, 99, 107>>)}

SrcAdd(a, b) == PRINT \o a \o K("TOKEN_PLUS") \o b \o SEMI

AddSessions ==
    {<<SrcAdd(a, b)>> : a \in AddOperands, b \in AddOperands}
       \cup {<<SrcAdd(Str(<<97>>), Str(<<>>)), SrcAdd(Num(<<49>>), Str(<<97>>))>>}

AddInit == InitWith(AddSessions)

AddNext ==
    \/ Interpret
    \/ CompileDeclaration
    \/ CompileEnd
    \/ OpConstant
    \/ OpNil
    \/ OpTrue
    \/ OpGetGlobal
    \/ OpAdd
    \/ OpPrint
    \/ OpReturn

AddSpec == AddInit /\ [][AddNext]_vars

\* The value is a string of the heap
IsString(h, x) == IS_OBJ(x) /\ h[AS_OBJ(x)].type = "OBJ_STRING"

\* The step leaves the stack below its n topmost values alone and puts one
\* value in their place
ReplacesTop(n) ==
    /\ vm'.stackTop = vm.stackTop - n + 1
    /\ \A i \in 1..(vm.stackTop - n) : vm'.stack[i] = vm.stack[i]
    /\ vm'.frames = [vm.frames EXCEPT ![Len(vm.frames)].ip = @ + 1]

C22_Step ==
    Running(OP_ADD) =>
        LET b == vm.stack[vm.stackTop]
            a == vm.stack[vm.stackTop - 1]
            sum == vm'.stack[vm'.stackTop]
        IN  IF IS_NUMBER(a) /\ IS_NUMBER(b)
            THEN /\ ReplacesTop(2)
                 /\ sum = NUMBER_VAL(AS_NUMBER(a) + AS_NUMBER(b))
                 /\ err' = err
                 /\ pc' = "run"
            ELSE IF IsString(heap, a) /\ IsString(heap, b)
            THEN /\ ReplacesTop(2)
                 /\ IsString(heap', sum)
                 /\ heap'[AS_OBJ(sum)].chars = heap[AS_OBJ(a)].chars \o heap[AS_OBJ(b)].chars
                 /\ Bound(vm'.strings, AS_OBJ(sum))
                 /\ \A s \in Range(vm'.objects) :
                       (heap'[s].type = "OBJ_STRING" /\ heap'[s].chars = heap'[AS_OBJ(sum)].chars)
                          => s = AS_OBJ(sum)
                 /\ err' = err
                 /\ pc' = "run"
            ELSE RuntimeErrorStep("Operands must be two numbers or two strings.")

\* C22: ADD on two numbers pushes their sum, on two strings the interned
\* concatenation, and on every other pair of operands is the runtime error
\* "Operands must be two numbers or two strings."; in the success cases the
\* two operands are replaced by the one result.
C22_AddNumbersOrStrings == [][C22_Step]_vars

\* "a" + "" has printed a, and then 1 + "a" has failed
C22_Witness ==
    /\ Returned
    /\ runs = 2
    /\ scanner.source = SrcAdd(Num(<<49>>), Str(<<97>>))
    /\ out = <<<<97>>>>
    /\ err = <<"Operands must be two numbers or two strings.">>
    /\ result = "INTERPRET_RUNTIME_ERROR"

(***************************************************************************)
(* run() on the chunks of classes with methods.  compile() emits neither   *)
(* OP_METHOD nor OP_INVOKE, so the function that interpret() runs is put   *)
(* together here, byte by byte, as the code of                             *)
(*     class A { x(...) {} }  var a = A();  a.x = ...;  <last statement>   *)
(***************************************************************************)
\* The capacity of an array that has grown to n elements
Capacity(n) == IF n = 0 THEN 0 ELSE IF n <= 8 THEN 8 ELSE IF n <= 16 THEN 16 ELSE IF n <= 32 THEN 32 ELSE 64

\* A new function object with this name, arity, code and constants
chunkFunction(W, name, arity, code, constants) ==
    LET W1 == Call("newFunction", W, <<>>)
        chunk == [capacity |-> Capacity(Len(code)), code |-> code,
                  constants |-> [capacity |-> Capacity(Len(constants)), values |-> constants]]
    IN  <<W1, [W1 EXCEPT !.heap[W1.ret] = [@ EXCEPT !.name = name, !.arity = arity, !.chunk = chunk],
                       !.vm.bytesAllocated = @ + 2 * chunk.capacity + chunk.constants.capacity]>>[2]

\* The method of the class: none, x() {} or x(p) {}
VmMethods == {-1, 0, 1}

\* The field x of the instance: none, the number 7 or the closure of fun g() {}
VmFields == {"none", "number", "closure"}

\* The last statement:
\*   get        print a.x;              with OP_GET_PROPERTY
\*   getNumber  print 7.x;
\*   setNumber  7.x = 7;
\*   call0      print a.x();            with OP_GET_PROPERTY and OP_CALL
\*   call1      print a.x(7);
\*   invoke0    print a.x();            with OP_INVOKE
\*   invoke1    print a.x(7);
VmLasts == {"get", "getNumber", "setNumber", "call0", "call1", "invoke0", "invoke1"}

\* The constants of the script: "A", "x", "a", 7, x() {}, x(p) {}, g() {}
VmCode(method, field, last) ==
    <<OP_CLASS, 0, OP_DEFINE_GLOBAL, 0>>
    \o (IF method >= 0 THEN <<OP_GET_GLOBAL, 0, OP_CLOSURE, 4 + method, OP_METHOD, 1, OP_POP>> ELSE <<>>)
    \o <<OP_GET_GLOBAL, 0, OP_CALL, 0, OP_DEFINE_GLOBAL, 2>>
    \o (CASE field = "none" -> <<>>
          [] field = "number" -> <<OP_GET_GLOBAL, 2, OP_CONSTANT, 3, OP_SET_PROPERTY, 1, OP_POP>>
          [] field = "closure" -> <<OP_GET_GLOBAL, 2, OP_CLOSURE, 6, OP_SET_PROPERTY, 1, OP_POP>>)
    \o (CASE last = "get" -> <<OP_GET_GLOBAL, 2, OP_GET_PROPERTY, 1, OP_PRINT>>
          [] last = "getNumber" -> <<OP_CONSTANT, 3, OP_GET_PROPERTY, 1, OP_PRINT>>
          [] last = "setNumber" -> <<OP_CONSTANT, 3, OP_CONSTANT, 3, OP_SET_PROPERTY, 1, OP_POP>>
          [] last = "call0" -> <<OP_GET_GLOBAL, 2, OP_GET_PROPERTY, 1, OP_CALL, 0, OP_PRINT>>
          [] last = "call1" -> <<OP_GET_GLOBAL, 2, OP_GET_PROPERTY, 1, OP_CONSTANT, 3, OP_CALL, 1, OP_PRINT>>
          [] last = "invoke0" -> <<OP_GET_GLOBAL, 2, OP_INVOKE, 1, 0, OP_PRINT>>
          [] last = "invoke1" -> <<OP_GET_GLOBAL, 2, OP_CONSTANT, 3, OP_INVOKE, 1, 1, OP_PRINT>>)
    \o <<OP_NIL, OP_RETURN>>

\* The interned string of these bytes, and the function of this name and arity
VmString(W, chars) == tableFindString(W.heap, W.vm.strings, chars, hashString(chars))

VmFunction(W, chars, arity) ==
    CHOOSE f \in 1..Len(W.heap) :
        /\ W.heap[f].type = "OBJ_FUNCTION"
        /\ W.heap[f].name = VmString(W, chars)
        /\ W.heap[f].arity = arity

\* The names "A", "x", "a" and "g"
VmNames(W) ==
    Call("copyString",
         Call("copyString",
              Call("copyString", Call("copyString", W, <<<<65>>>>), <<<<120>>>>), <<<<97>>>>),
         <<<<103>>>>)

\* fun name(...) {} with arity parameters
VmEmptyFunction(W, chars, arity) ==
    chunkFunction(W, VmString(W, chars), arity, <<OP_NIL, OP_RETURN>>, <<>>)

VmScript(W, code) ==
    chunkFunction(W, 0, 0, code,
                  <<OBJ_VAL(VmString(W, <<65>>)), OBJ_VAL(VmString(W, <<120>>)),
                    OBJ_VAL(VmString(W, <<97>>)), NUMBER_VAL(7),
                    OBJ_VAL(VmFunction(W, <<120>>, 0)), OBJ_VAL(VmFunction(W, <<120>>, 1)),
                    OBJ_VAL(VmFunction(W, <<103>>, 0))>>)

VmRun(W) == interpretFunction(W, W.ret)

\* interpret() at the call of run() with the script of this code
VmLoaded(code) ==
    VmRun(VmScript(VmEmptyFunction(VmEmptyFunction(VmEmptyFunction(
              VmNames(Call("initVM", BlankWorld, <<>>)), <<120>>, 0), <<120>>, 1), <<103>>, 0),
          code))

VmInit ==
    /\ \E method \in VmMethods, field \in VmFields, last \in VmLasts :
          InitAs(VmLoaded(VmCode(method, field, last)))
    /\ pc = "run"
    /\ result = "NONE"
    /\ runs = 1
    /\ input = <<>>
    /\ probe = NoProbe

VmNext ==
    \/ OpConstant
    \/ OpNil
    \/ OpPop
    \/ OpGetGlobal
    \/ OpDefineGlobal
    \/ OpGetProperty
    \/ OpSetProperty
    \/ OpPrint
    \/ OpCall
    \/ OpInvoke
    \/ OpClosure
    \/ OpReturn
    \/ OpClass
    \/ OpMethod

VmSpec == VmInit /\ [][VmNext]_vars

\* The step puts one value in the place of the n topmost values of the
\* stack and goes on after an instruction of the given length
Replaces(n, length) ==
    /\ vm'.stackTop = vm.stackTop - n + 1
    /\ \A i \in 1..(vm.stackTop - n) : vm'.stack[i] = vm.stack[i]
    /\ vm'.frames = [vm.frames EXCEPT ![Len(vm.frames)].ip = @ + length]
    /\ err' = err
    /\ pc' = "run"

\* The step is a runtime error, whatever its message
SomeRuntimeErrorStep ==
    /\ Len(err') = Len(err) + 1
    /\ result' = "INTERPRET_RUNTIME_ERROR"
    /\ pc' = "idle"

IsInstance(h, x) == IS_OBJ(x) /\ h[AS_OBJ(x)].type = "OBJ_INSTANCE"

C23_Step ==
    LET name == AS_OBJ(OperandConstant)
        receiver == vm.stack[vm.stackTop]
        got == vm'.stack[vm'.stackTop]
    IN  /\ (Running(OP_GET_PROPERTY) /\ IsInstance(heap, receiver)) =>
              LET fields == heap[AS_OBJ(receiver)].fields
                  methods == heap[heap[AS_OBJ(receiver)].klass].methods
              IN  IF Bound(fields, name)
                  THEN Replaces(1, 2) /\ <<name, got>> \in Bindings(fields)
                  ELSE IF Bound(methods, name)
                  THEN /\ Replaces(1, 2)
                       /\ IS_OBJ(got)
                       /\ heap'[AS_OBJ(got)].type = "OBJ_BOUND_METHOD"
                       /\ heap'[AS_OBJ(got)].receiver = receiver
                       /\ <<name, OBJ_VAL(heap'[AS_OBJ(got)].method)>> \in Bindings(methods)
                  ELSE RuntimeErrorStep("Undefined property '" \o FormatS(heap[name].chars) \o "'.")
        /\ (Running(OP_GET_PROPERTY) /\ ~IsInstance(heap, receiver)) => SomeRuntimeErrorStep
        /\ (Running(OP_SET_PROPERTY) /\ ~IsInstance(heap, vm.stack[vm.stackTop - 1])) =>
              SomeRuntimeErrorStep

\* C23: GET_PROPERTY on an instance gives the field of the name when there
\* is one, also when the class has a method of that name; without the field
\* it binds the method of the class to the receiver; with neither it is the
\* runtime error "Undefined property"; on a receiver that is no instance
\* GET_PROPERTY and SET_PROPERTY are runtime errors.
C23_FieldShadowsMethod == [][C23_Step]_vars

\* The instance has a field x, its class a method x, and print a.x has
\* printed the field: 7
C23_Witness ==
    /\ Returned
    /\ result = "INTERPRET_OK"
    /\ out = <<<<55>>>>
    /\ \E o \in 1..Len(heap) :
          /\ heap[o].type = "OBJ_INSTANCE"
          /\ \E f \in Bindings(heap[o].fields), m \in Bindings(heap[heap[o].klass].methods) :
                f[1] = m[1] /\ f[2] = NUMBER_VAL(7)

(***************************************************************************)
(* OP_CALL on every kind of callee:  <declaration>  print callee(7, ...);  *)
(***************************************************************************)
\* The callees: f of fun f() {}, f of fun f(p) {}, A of class A {}, the
\* instance A(), 1, "a", nil, true and the native function clock
Callees == {"f0", "f1", "class", "instance", "number", "string", "nil", "true", "native"}

MaxArgCount == 2

\* The declaration that the callee needs
SrcDeclare(callee) ==
    CASE callee = "f0" -> FUN \o Id(<<102>>) \o LP \o RP \o LB \o RB
      [] callee = "f1" -> FUN \o Id(<<102>>) \o LP \o Id(<<112>>) \o RP \o LB \o RB
      [] callee \in {"class", "instance"} -> K("TOKEN_CLASS") \o Id(<<65>>) \o LB \o RB
      [] OTHER -> <<>>

SrcCallee(callee) ==
    CASE callee \in {"f0", "f1"} -> Id(<<102>>)
      [] callee = "class" -> Id(<<65>>)
      [] callee = "instance" -> Id(<<65>>) \o LP \o RP
      [] callee = "number" -> Num(<<49>>)
      [] callee = "string" -> Str(<<97>>)
      [] callee = "nil" -> K("TOKEN_NIL")
      [] callee = "true" -> K("TOKEN_TRUE")
      [] callee = "native" -> Id(<<99, 108, 111, 99, 107>>)

\* 7, 7, ... : n arguments
SrcArguments(n) ==
    SeqOf([i \in 1..(2 * n - 1) |->
             IF i % 2 = 1 THEN Token("TOKEN_NUMBER", <<55>>) ELSE Token("TOKEN_COMMA", <<>>)])

SrcCall(callee, n) ==
    SrcDeclare(callee) \o PRINT \o SrcCallee(callee) \o LP \o SrcArguments(n) \o RP \o SEMI

CallSessions == {<<SrcCall(callee, n)>> : callee \in Callees, n \in 0..MaxArgCount}

CallInit == InitWith(CallSessions)

CallNext ==
    \/ Interpret
    \/ CompileDeclaration
    \/ CompileEnd
    \/ OpConstant
    \/ OpNil
    \/ OpTrue
    \/ OpGetGlobal
    \/ OpDefineGlobal
    \/ OpPrint
    \/ OpCall
    \/ OpClosure
    \/ OpReturn
    \/ OpClass

CallSpec == CallInit /\ [][CallNext]_vars

HasType(h, x, type) == IS_OBJ(x) /\ h[AS_OBJ(x)].type = type

C24_Step ==
    Running(OP_CALL) =>
        LET argc == OperandByte(1)
            callee == vm.stack[vm.stackTop - argc]
        IN  IF HasType(heap, callee, "OBJ_CLOSURE")
            THEN LET arity == heap[heap[AS_OBJ(callee)].function].arity
                 IN  IF argc # arity
                     THEN /\ RuntimeErrorStep("Expected " \o ToString(arity) \o " arguments but got "
                                              \o ToString(argc) \o ".")
                          /\ vm'.frames = <<>>
                     ELSE /\ Len(vm'.frames) = Len(vm.frames) + 1
                          /\ vm'.frames[Len(vm'.frames)] =
                                [closure |-> AS_OBJ(callee), ip |-> 0, slots |-> vm.stackTop - argc - 1]
                          /\ vm'.stackTop = vm.stackTop
                          /\ err' = err
                          /\ pc' = "run"
            ELSE IF HasType(heap, callee, "OBJ_CLASS") /\ ~Bound(heap[AS_OBJ(callee)].methods, vm.initString)
            THEN IF argc # 0
                 THEN RuntimeErrorStep("Expected 0 arguments but got " \o ToString(argc) \o ".")
                 ELSE /\ Replaces(1, 2)
                      /\ HasType(heap', vm'.stack[vm'.stackTop], "OBJ_INSTANCE")
                      /\ heap'[AS_OBJ(vm'.stack[vm'.stackTop])].klass = AS_OBJ(callee)
            ELSE IF HasType(heap, callee, "OBJ_NATIVE")
            THEN Replaces(argc + 1, 2) /\ IS_NUMBER(vm'.stack[vm'.stackTop])
            ELSE IF HasType(heap, callee, "OBJ_CLASS") \/ HasType(heap, callee, "OBJ_BOUND_METHOD")
            THEN TRUE
            ELSE RuntimeErrorStep("Can only call functions and classes.")

\* C24: CALL dispatches on the kind of the callee at peek(argc).  A closure
\* called with a number of arguments other than its arity is a runtime
\* error and no frame is pushed; a class without init called with arguments
\* is a runtime error; a native call puts the one value returned in the
\* place of the callee and the arguments; any other callee is the runtime
\* error "Can only call functions and classes."
C24_CallDispatch == [][C24_Step]_vars

\* fun f(p) {} called with two arguments has failed and has left no frame
C24_Witness ==
    /\ Returned
    /\ scanner.source = SrcCall("f1", 2)
    /\ err = <<"Expected 1 arguments but got 2.">>
    /\ result = "INTERPRET_RUNTIME_ERROR"
    /\ vm.frames = <<>>

(***************************************************************************)
(* The for loop:  for (var i = 0; i < n; i = i + 1) print i;               *)
(***************************************************************************)
MaxIterations == 3

SrcFor(n) ==
    K("TOKEN_FOR") \o LP \o VAR \o Id(<<105>>) \o EQ \o Num(<<48>>) \o SEMI
    \o Id(<<105>>) \o K("TOKEN_LESS") \o Num(<<48 + n>>) \o SEMI
    \o Id(<<105>>) \o EQ \o Id(<<105>>) \o K("TOKEN_PLUS") \o Num(<<49>>) \o RP
    \o PRINT \o Id(<<105>>) \o SEMI

ForSessions == {<<SrcFor(n)>> : n \in 0..MaxIterations}

ForInit == InitWith(ForSessions)

ForNext ==
    \/ Interpret
    \/ CompileDeclaration
    \/ CompileEnd
    \/ OpConstant
    \/ OpNil
    \/ OpPop
    \/ OpGetLocal
    \/ OpSetLocal
    \/ OpLess
    \/ OpAdd
    \/ OpPrint
    \/ OpJump
    \/ OpJumpIfFalse
    \/ OpLoop
    \/ OpReturn

ForSpec == ForInit /\ [][ForNext]_vars

\* The n of the source that runs, and the value of its variable i, which is
\* the local of slot 1
Limit == scanner.source[10].lex[1] - 48

Counter == AS_NUMBER(vm.stack[2])

\* print has run for 0, 1, ... n - 1
Printed(n) == SeqOf([k \in 1..n |-> <<48 + k - 1>>])

\* In the code of the loop OP_LESS is the condition, OP_PRINT the body and
\* OP_ADD the increment; the initializer is the instruction at offset 0
C25_Step ==
    /\ (pc' = "run" /\ vm'.frames[1].ip = 0) => pc = "compile"
    /\ Running(OP_LESS) => Counter = Len(out) /\ out = Printed(Counter)
    /\ Running(OP_PRINT) =>
          /\ Counter = Len(out)
          /\ Counter < Limit
          /\ out' = Append(out, <<48 + Counter>>)
    /\ Running(OP_ADD) => Counter = Len(out) - 1
    /\ (Running(OP_JUMP_IF_FALSE) /\ vm.stack[vm.stackTop] = BOOL_VAL(FALSE)) =>
          /\ OperandByte(3 + OperandByte(1) * 256 + OperandByte(2)) = OP_POP
          /\ Counter = Limit
    /\ Running(OP_NIL) => vm.stackTop = 1 /\ out = Printed(Limit)

\* C25: in the code of for (init; cond; inc) B, init runs once, cond is
\* evaluated before every iteration, inc runs after B and before the next
\* evaluation of cond, and when cond is falsey the loop ends with the value
\* of the condition popped: the loop up to 3 prints 0, 1, 2.
C25_ForLoopOrder ==
    /\ [][C25_Step]_vars
    /\ [](Returned => (result = "INTERPRET_OK" /\ out = Printed(Limit) /\ vm.stackTop = 0))

\* The loop up to 3 has printed 0, 1 and 2 and has ended
C25_Witness ==
    /\ Returned
    /\ scanner.source = SrcFor(3)
    /\ out = <<<<48>>, <<49>>, <<50>>>>
    /\ result = "INTERPRET_OK"

(***************************************************************************)
(* Two collections in a row.  Next to the steps of the program, a          *)
(* collection can start at any point between them (pc becomes              *)
(* "collected"), and a second one right after it ("collected again").      *)
(***************************************************************************)
Collect ==
    /\ pc \in {"idle", "compile", "run"}
    /\ Commit(Call("collectGarbage", World(0), <<>>), "collected")
    /\ UNCHANGED <<result, runs, input, probe>>

CollectAgain ==
    /\ pc = "collected"
    /\ Commit(Call("collectGarbage", World(0), <<>>), "collected again")
    /\ UNCHANGED <<result, runs, input, probe>>

GcNext == Next \/ Collect \/ CollectAgain

GcSpec == Init /\ [][GcNext]_vars

C26_Step ==
    (pc = "collected" /\ pc' = "collected again") =>
        /\ heap' = heap
        /\ vm'.objects = vm.objects
        /\ vm'.strings = vm.strings
        /\ vm'.bytesAllocated = vm.bytesAllocated
        /\ \A i \in 1..Len(gclog'.events) : gclog'.events[i].e = "mark"

\* C26: a collection that runs right after a completed collection, with no
\* allocation and no step of the program in between, frees no object,
\* removes no entry of the intern table and leaves bytesAllocated unchanged.
C26_SecondCollectionFreesNothing == [][C26_Step]_vars

\* The first collection has freed objects and has removed strings from the
\* intern table, and the second has run
C26_Witness ==
    /\ pc = "collected again"
    /\ gclog.events # <<>>
    /\ Events("free") = <<>> /\ Events("purge") = <<>>
    /\ \E e \in Range(gclog.pre[1].vm.strings.entries) : e = Tombstone
    /\ \E o \in 1..Len(heap) : IsFreed(heap, o) /\ o \notin Range(vm.objects)

(***************************************************************************)
(* The jumps of a compiled chunk.  The boundaries of the instructions are  *)
(* the ones disassembleInstruction walks along: the offset it returns is   *)
(* the start of the next instruction.                                      *)
(***************************************************************************)
constantInstruction(offset) == offset + 2

byteInstruction(offset) == offset + 2

invokeInstruction(offset) == offset + 3

simpleInstruction(offset) == offset + 1

\* The jump is read as (code[offset + 1] << 8) | code[offset + 2]; the code
\* of the model is 1-based
jumpTarget(sign, chunk, offset) ==
    offset + 3 + sign * (chunk.code[offset + 2] * 256 + chunk.code[offset + 3])

jumpInstruction(offset) == offset + 3

disassembleInstruction(h, chunk, offset) ==
    LET instruction == chunk.code[offset + 1]
    IN  CASE instruction \in {OP_CONSTANT, OP_GET_GLOBAL, OP_DEFINE_GLOBAL, OP_SET_GLOBAL,
                              OP_GET_PROPERTY, OP_SET_PROPERTY, OP_GET_SUPER, OP_CLASS,
                              OP_METHOD} -> constantInstruction(offset)
          [] instruction \in {OP_GET_LOCAL, OP_SET_LOCAL, OP_GET_UPVALUE, OP_SET_UPVALUE,
                              OP_CALL} -> byteInstruction(offset)
          [] instruction \in {OP_JUMP, OP_JUMP_IF_FALSE, OP_LOOP} -> jumpInstruction(offset)
          [] instruction \in {OP_INVOKE, OP_SUPER_INVOKE} -> invokeInstruction(offset)
          [] instruction = OP_CLOSURE ->
                LET fn == AS_OBJ(chunk.constants.values[chunk.code[offset + 2] + 1])
                IN  offset + 2 + 2 * h[fn].upvalueCount
          [] OTHER -> simpleInstruction(offset)

\* disassembleChunk: the offsets at which its loop calls
\* disassembleInstruction
RECURSIVE disassembleChunk(_, _, _)
disassembleChunk(h, chunk, offset) ==
    IF offset >= Len(chunk.code) THEN {}
    ELSE {offset} \cup disassembleChunk(h, chunk, disassembleInstruction(h, chunk, offset))

\* The function compile() returns and the functions in the constants of its
\* chunk, and of theirs
RECURSIVE Functions(_, _)
Functions(h, fn) ==
    {fn} \cup UNION {Functions(h, AS_OBJ(c)) :
                             c \in {x \in Range(h[fn].chunk.constants.values) :
                                       IsObjType(h, x, "OBJ_FUNCTION")}}

\* The script that runs: interpret() has called the function compile() has
\* returned in the first frame
Script == heap[vm.frames[1].closure].function

\* The jump instructions of a chunk as <<offset, sign>>
JumpsOf(h, chunk) ==
    {<<o, IF chunk.code[o + 1] = OP_LOOP THEN -1 ELSE 1>> :
        o \in {i \in disassembleChunk(h, chunk, 0) :
                  chunk.code[i + 1] \in {OP_JUMP, OP_JUMP_IF_FALSE, OP_LOOP}}}

JumpsResolve(h, fn) ==
    LET chunk == h[fn].chunk
    IN  \A j \in JumpsOf(h, chunk) :
           LET target == jumpTarget(j[2], chunk, j[1])
           IN  /\ 0 <= target /\ target < Len(chunk.code)
               /\ target \in disassembleChunk(h, chunk, 0)

\* C27: in every chunk of a compilation that has succeeded, the operand of
\* every OP_JUMP, OP_JUMP_IF_FALSE and OP_LOOP resolves to an offset inside
\* the code, 0 <= target < length, that is the start of an instruction: no
\* placeholder of emitJump is left unpatched.
C27_JumpTargetsInsideChunk ==
    (pc = "run" /\ vm.frames # <<>>) => \A fn \in Functions(heap, Script) : JumpsResolve(heap, fn)

\* A script with a forward jump, a conditional jump and a loop is running
C27_Witness ==
    /\ pc = "run" /\ vm.frames # <<>>
    /\ scanner.source = SrcFlow
    /\ {heap[Script].chunk.code[j[1] + 1] : j \in JumpsOf(heap, heap[Script].chunk)}
         = {OP_JUMP, OP_JUMP_IF_FALSE, OP_LOOP}

(***************************************************************************)
(* OP_INVOKE against OP_GET_PROPERTY and OP_CALL.  The unfused form reads  *)
(* the property with the receiver on top of the stack, has the arguments   *)
(* pushed on top of what it has read, and calls.                           *)
(***************************************************************************)
RECURSIVE pushAll(_, _)
pushAll(W, values) ==
    IF values = <<>> THEN W ELSE pushAll(push(W, Head(values)), Tail(values))

\* case OP_CALL of run(), from the world after the opcode is read
callOperand(W) ==
    LET argCount == PeekByte(W)
    IN  OrFail(Call("callValue", SkipBytes(W, 1), <<peek(W, argCount), argCount>>))

\* The arguments on top of the property, and the call; nothing follows a
\* runtime error of the property access
callAfterGet(W, args) ==
    IF W.res # "" \/ W.fault # "" THEN W ELSE callOperand(pushAll(W, args))

\* W is the world after the opcode of OP_INVOKE name argCount is read
Unfused(W) ==
    LET argCount == PeekByte(SkipBytes(W, 1))
        args == SubSeq(W.vm.stack, W.vm.stackTop - argCount + 1, W.vm.stackTop)
    IN  callAfterGet(getProperty([W EXCEPT !.vm.stackTop = @ - argCount]), args)

\* What a step of run() leaves to the steps that follow: the frames, the
\* stack, the messages and the status
Outcome(W) ==
    [frames |-> W.vm.frames, stack |-> SubSeq(W.vm.stack, 1, W.vm.stackTop),
     err |-> W.err, out |-> W.out, res |-> W.res, fault |-> W.fault]

C28_Step ==
    LET argCount == OperandByte(2)
        receiver == vm.stack[vm.stackTop - argCount]
        unfused == Outcome(Unfused(Fetched(0)))
    IN  (Running(OP_INVOKE) /\ IsInstance(heap, receiver)) =>
            /\ vm'.frames = unfused.frames
            /\ SubSeq(vm'.stack, 1, vm'.stackTop) = unfused.stack
            /\ err' = unfused.err
            /\ out' = unfused.out
            /\ fault' = unfused.fault
            /\ result' = (IF unfused.res = "" THEN result ELSE unfused.res)
            /\ pc' = (IF unfused.res = "" THEN "run" ELSE "idle")

\* C28: on an instance receiver, OP_INVOKE name argCount has the outcome of
\* OP_GET_PROPERTY name followed by OP_CALL argCount: the same callee (the
\* field if there is one, else the method of the class), a new frame with
\* the receiver or the field value in slot 0 and the same arguments above
\* it, and a runtime error on the same inputs with the same message.
C28_InvokeIsGetThenCall == [][C28_Step]_vars

\* OP_INVOKE has called a method of the class with one argument: the frame
\* of the method has the instance in slot 0 and the argument above it
C28_Witness ==
    /\ pc = "run"
    /\ Len(vm.frames) = 2
    /\ vm.frames[2].ip = 0
    /\ LET caller == heap[heap[vm.frames[1].closure].function].chunk
       IN  /\ vm.frames[1].ip >= 3
           /\ SubSeq(caller.code, vm.frames[1].ip - 2, vm.frames[1].ip) = <<OP_INVOKE, 1, 1>>
    /\ IsInstance(heap, vm.stack[vm.frames[2].slots + 1])
    /\ vm.stack[vm.frames[2].slots + 2] = NUMBER_VAL(7)
    /\ vm.stackTop = vm.frames[2].slots + 2

\* The frame on top, and the stack slot of its callee: call() has set slots
\* to stackTop - argCount - 1, the height of the stack before the callee
\* was pushed
Callee == vm.frames[Len(vm.frames)].slots

C29_Step ==
    (Running(OP_RETURN) /\ Len(vm.frames) > 1) =>
        /\ Len(vm'.frames) = Len(vm.frames) - 1
        /\ \A i \in 1..Len(vm'.frames) :
              /\ vm'.frames[i].closure = vm.frames[i].closure
              /\ vm'.frames[i].slots = vm.frames[i].slots
        /\ \A i \in 1..Callee : vm'.stack[i] = vm.stack[i]
        /\ vm'.stackTop = Callee + 1
        /\ vm'.stack[Callee + 1] = vm.stack[vm.stackTop]
        /\ err' = err
        /\ pc' = "run"

\* C29: when a called closure executes OP_RETURN and its frame is not the
\* last one, the frame count goes down by one, the stack of the caller below
\* the slot of the callee is unchanged, and the callee, its arguments, its
\* locals and its temporaries are replaced by the result alone: the stack is
\* one higher than it was before the callee was pushed.
C29_ReturnReplacesWindow == [][C29_Step]_vars

\* make(42) has returned: of the callee, its argument and its local get,
\* only the closure it has returned is left above the script, with x closed
C29_Witness ==
    /\ pc = "run"
    /\ scanner.source = SrcMake
    /\ Len(vm.frames) = 1
    /\ vm.stackTop = 2
    /\ IsObjType(heap, vm.stack[2], "OBJ_CLOSURE")
    /\ LET upvalues == heap[AS_OBJ(vm.stack[2])].upvalues
       IN  /\ Len(upvalues) = 1
           /\ heap[upvalues[1]].location = -1
           /\ heap[upvalues[1]].closed = NUMBER_VAL(42)

(***************************************************************************)
(* captureUpvalue and closeUpvalues on their own: any sequence of calls,   *)
(* on any slots of a stack of MaxSlots values.  probe holds the last call. *)
(***************************************************************************)
MaxSlots == 3

MaxCaptures == 3

\* The VM after initVM() with MaxSlots numbers on the stack: slot i holds
\* 10 + i
UpvalueWorld ==
    pushAll(Call("initVM", BlankWorld, <<>>), SeqOf([i \in 1..MaxSlots |-> NUMBER_VAL(9 + i)]))

UpvalueInit ==
    /\ InitAs(UpvalueWorld)
    /\ pc = "idle"
    /\ result = "NONE"
    /\ runs = 0
    /\ input = <<>>
    /\ probe = NoProbe

CaptureUpvalue ==
    /\ Len(heap) < Len(UpvalueWorld.heap) + MaxCaptures
    /\ \E local \in 0..(vm.stackTop - 1), g \in GcPoints :
          LET W == Call("captureUpvalue", World(g), <<local>>)
          IN  /\ Commit(W, "idle")
              /\ probe' = [f |-> "captureUpvalue", slot |-> local, ret |-> W.ret]
    /\ UNCHANGED <<result, runs, input>>

CloseUpvalues ==
    /\ \E last \in 0..vm.stackTop :
          /\ Commit(Call("closeUpvalues", World(0), <<last>>), "idle")
          /\ probe' = [f |-> "closeUpvalues", slot |-> last, ret |-> 0]
    /\ UNCHANGED <<result, runs, input>>

UpvalueNext == CaptureUpvalue \/ CloseUpvalues

UpvalueSpec == UpvalueInit /\ [][UpvalueNext]_vars

\* The upvalues that point into the stack, on the list or not
OpenUpvalues ==
    {o \in 1..Len(heap) : heap[o].type = "OBJ_UPVALUE" /\ heap[o].location >= 0}

\* C30: after any sequence of captureUpvalue and closeUpvalues calls the
\* list of open upvalues is strictly sorted by descending stack slot, so it
\* has no two entries for one slot, and holds open upvalues only;
\* closeUpvalues, which stops at the first entry below its boundary, has
\* then left no upvalue open at or above the boundary.
C30_OpenListSortedDescending ==
    LET open == UpvalueList(heap, vm.openUpvalues) IN
    /\ fault = ""
    /\ \A i \in 1..Len(open) : open[i] \in OpenUpvalues /\ heap[open[i]].location < vm.stackTop
    /\ \A i \in 1..(Len(open) - 1) : heap[open[i]].location > heap[open[i + 1]].location
    /\ probe.f = "captureUpvalue" =>
          probe.ret \in Range(open) /\ heap[probe.ret].location = probe.slot
    /\ probe.f = "closeUpvalues" =>
          \A o \in OpenUpvalues : heap[o].location < probe.slot

\* An upvalue has been spliced behind an older one, after another one was
\* closed with the value of its slot
C30_Witness ==
    LET open == UpvalueList(heap, vm.openUpvalues) IN
    /\ probe.f = "captureUpvalue"
    /\ Len(open) = 2
    /\ probe.ret = open[2]
    /\ open[2] > open[1]
    /\ \E o \in 1..Len(heap) :
          /\ heap[o].type = "OBJ_UPVALUE"
          /\ heap[o].location = -1
          /\ heap[o].closed = NUMBER_VAL(12)

(***************************************************************************)
(* Blocks.  The block statement of statement() is taken in its steps when  *)
(* it stands where a declaration of the script or of a block stands:       *)
(* beginScope(), each turn of the loop of block(), and the consume of '}'  *)
(* with endScope().  probe keeps, for the script, the boundary at the      *)
(* start of each open block (open), the boundaries between declarations:   *)
(* the number of locals there with the offset of the code there (marks),   *)
(* and for each declaration its first token, the scope depth it stands at  *)
(* and the boundaries before and after it (statements).                    *)
(***************************************************************************)
\* { var a = 1; { var b = 2; fun f() { return b; } var c = 3; print c; } var d = 4; print d; print a; }
SrcNested ==
    LB \o VAR \o Id(<<97>>) \o EQ \o Num(<<49>>) \o SEMI
    \o LB \o VAR \o Id(<<98>>) \o EQ \o Num(<<50>>) \o SEMI
    \o FUN \o Id(<<102>>) \o LP \o RP \o LB \o RETURN \o Id(<<98>>) \o SEMI \o RB
    \o VAR \o Id(<<99>>) \o EQ \o Num(<<51>>) \o SEMI
    \o PRINT \o Id(<<99>>) \o SEMI \o RB
    \o VAR \o Id(<<100>>) \o EQ \o Num(<<52>>) \o SEMI
    \o PRINT \o Id(<<100>>) \o SEMI \o PRINT \o Id(<<97>>) \o SEMI \o RB

\* var g = 0; { var a = 1; fun f() { return a; } g = f; } { var b = 2; print b; print g(); }
SrcEscape ==
    VAR \o Id(<<103>>) \o EQ \o Num(<<48>>) \o SEMI
    \o LB \o VAR \o Id(<<97>>) \o EQ \o Num(<<49>>) \o SEMI
    \o FUN \o Id(<<102>>) \o LP \o RP \o LB \o RETURN \o Id(<<97>>) \o SEMI \o RB
    \o Id(<<103>>) \o EQ \o Id(<<102>>) \o SEMI \o RB
    \o LB \o VAR \o Id(<<98>>) \o EQ \o Num(<<50>>) \o SEMI
    \o PRINT \o Id(<<98>>) \o SEMI \o PRINT \o Id(<<103>>) \o LP \o RP \o SEMI \o RB

\* { } { { var a = 1; } print 2; }
SrcEmptyBlocks ==
    LB \o RB \o LB \o LB \o VAR \o Id(<<97>>) \o EQ \o Num(<<49>>) \o SEMI \o RB
    \o PRINT \o Num(<<50>>) \o SEMI \o RB

ScopeSessions == {<<SrcNested>>, <<SrcEscape>>, <<SrcEmptyBlocks>>, <<SrcShare>>}

NoScopes == [f |-> "scopes", open |-> <<>>, marks |-> {}, statements |-> {}]

ScopeInit ==
    /\ input \in ScopeSessions
    /\ InitAs(Call("initVM", BlankWorld, <<>>))
    /\ pc = "idle"
    /\ result = "NONE"
    /\ runs = 0
    /\ probe = NoScopes

\* The boundary the compiler is at: the offset of the next byte of the chunk
\* and the number of locals in scope
ScopeMark(W) == [at |-> ChunkCount(W), locals |-> Len(Cur(W).locals)]

\* The declaration that took the compiler from B to W
StatementOf(B, W) ==
    [type |-> B.parser.current.type,
     depth |-> Cur(B).scopeDepth,
     from |-> ScopeMark(B),
     to |-> ScopeMark(W)]

\* The compiler is at W, in a block it has opened
Begun(W) ==
    /\ Commit(W, "block")
    /\ probe' = [probe EXCEPT !.open = Append(@, ScopeMark(W)),
                              !.marks = @ \cup {ScopeMark(W)}]

\* The compiler is at W, after the declaration that it was at B before
Declared(B, W) ==
    /\ Commit(W, pc)
    /\ probe' = [probe EXCEPT !.marks = @ \cup {ScopeMark(W)},
                              !.statements = @ \cup {StatementOf(B, W)}]

\* The compiler is at W, after the block that was opened last
Ended(W) ==
    /\ Commit(W, IF Cur(W).scopeDepth = 0 THEN "compile" ELSE "block")
    /\ probe' = [probe EXCEPT !.open = Take(@, Len(@) - 1),
                              !.marks = @ \cup {ScopeMark(W)},
                              !.statements = @ \cup
                                 {[type |-> "TOKEN_LEFT_BRACE",
                                   depth |-> Cur(W).scopeDepth,
                                   from |-> probe.open[Len(probe.open)],
                                   to |-> ScopeMark(W)]}]

\* statement() at '{': match(TOKEN_LEFT_BRACE) and beginScope()
BlockBegin ==
    /\ pc \in {"compile", "block"}
    /\ parser.current.type = "TOKEN_LEFT_BRACE"
    /\ Begun(beginScope(Call("advance", World(0), <<>>)))
    /\ UNCHANGED <<result, runs, input>>

\* One turn of the loop of compile() or of block(): a declaration that is
\* not a block statement
ScopeDeclaration ==
    /\ pc \in {"compile", "block"}
    /\ parser.current.type \notin {"TOKEN_EOF", "TOKEN_LEFT_BRACE"}
    /\ pc = "block" => parser.current.type # "TOKEN_RIGHT_BRACE"
    /\ \E g \in GcPoints : Declared(World(0), Call("declaration", World(g), <<>>))
    /\ UNCHANGED <<result, runs, input>>

\* The end of block(), endScope() and the end of declaration()
blockEnd(W) ==
    LET W1 == Call("endScope", Call("consume", W, <<"TOKEN_RIGHT_BRACE", "Expect '}' after block.">>), <<>>)
    IN  IF W1.parser.panicMode THEN Call("synchronize", W1, <<>>) ELSE W1

BlockEnd ==
    /\ pc = "block"
    /\ parser.current.type \in {"TOKEN_EOF", "TOKEN_RIGHT_BRACE"}
    /\ Ended(blockEnd(World(0)))
    /\ UNCHANGED <<result, runs, input>>

ScopeNext ==
    \/ Interpret
    \/ BlockBegin
    \/ ScopeDeclaration
    \/ BlockEnd
    \/ CompileEnd
    \/ OpConstant
    \/ OpNil
    \/ OpPop
    \/ OpGetLocal
    \/ OpSetLocal
    \/ OpGetGlobal
    \/ OpDefineGlobal
    \/ OpSetGlobal
    \/ OpGetUpvalue
    \/ OpSetUpvalue
    \/ OpPrint
    \/ OpCall
    \/ OpClosure
    \/ OpCloseUpvalue
    \/ OpReturn

ScopeSpec == ScopeInit /\ [][ScopeNext]_vars

\* The step of BlockEnd
C31_Step ==
    (pc = "block" /\ parser.current.type = "TOKEN_RIGHT_BRACE") =>
        LET c == current[Len(current)]
            after == current'[Len(current')]
            code == heap[c.function].chunk.code
            n == Len(c.locals)
            kept == probe.open[Len(probe.open)].locals
        IN  /\ after.scopeDepth = c.scopeDepth - 1
            /\ after.locals = SubSeq(c.locals, 1, kept)
            /\ \A i \in 1..n : i > kept <=> c.locals[i].depth = c.scopeDepth
            /\ heap'[c.function].chunk.code =
                  code \o [j \in 1..(n - kept) |->
                             IF c.locals[n + 1 - j].isCaptured THEN OP_CLOSE_UPVALUE ELSE OP_POP]

\* The script runs and is at a boundary between declarations
AtMark(m) == pc = "run" /\ Len(vm.frames) = 1 /\ vm.frames[1].ip = m.at

C31_Run ==
    /\ \A m \in probe.marks : AtMark(m) => vm.stackTop - vm.frames[1].slots = m.locals
    /\ (Running(OP_GET_LOCAL) \/ Running(OP_SET_LOCAL)) =>
          OperandByte(1) < vm.stackTop - vm.frames[Len(vm.frames)].slots

\* C31: at the end of a block endScope removes exactly the locals declared
\* in the block, last declared first, and emits OP_CLOSE_UPVALUE for each of
\* them that a nested function has captured and OP_POP for each other one;
\* at run time the stack is, after the block, as high as before it, and at
\* every boundary between declarations the frame window holds as many
\* values as there are locals in scope, so that the index of a local is its
\* slot in the window.
C31_EndScopeRemovesBlockLocals == [][C31_Step]_vars /\ []C31_Run

\* The nested blocks have run: c of the inner block, then d in the slot that
\* the inner block has given back, then a of the outer block
C31_Witness ==
    /\ Returned
    /\ scanner.source = SrcNested
    /\ result = "INTERPRET_OK"
    /\ out = <<<<51>>, <<52>>, <<49>>>>
    /\ \E m \in probe.marks : m.locals = 4

(***************************************************************************)
(* Collections on cyclic object graphs: a closure that its own closed      *)
(* upvalue holds, and an instance that one of its own fields holds.        *)
(***************************************************************************)
\* var g; { fun f() { return f; } g = f; }
SrcSelf ==
    VAR \o Id(<<103>>) \o SEMI
    \o LB \o FUN \o Id(<<102>>) \o LP \o RP \o LB \o RETURN \o Id(<<102>>) \o SEMI \o RB
    \o Id(<<103>>) \o EQ \o Id(<<102>>) \o SEMI \o RB

\* class A {} var a = A(); a.x = a;
SrcKnot ==
    K("TOKEN_CLASS") \o Id(<<65>>) \o LB \o RB
    \o VAR \o Id(<<97>>) \o EQ \o Id(<<65>>) \o LP \o RP \o SEMI
    \o Id(<<97>>) \o K("TOKEN_DOT") \o Id(<<120>>) \o EQ \o Id(<<97>>) \o SEMI

CycleSessions == {<<SrcSelf, SrcOne>>, <<SrcKnot, SrcOne>>}

CycleInit == InitWith(CycleSessions)

CycleNext ==
    \/ Interpret
    \/ CompileDeclaration
    \/ CompileEnd
    \/ OpConstant
    \/ OpNil
    \/ OpPop
    \/ OpGetLocal
    \/ OpGetGlobal
    \/ OpDefineGlobal
    \/ OpSetGlobal
    \/ OpSetProperty
    \/ OpPrint
    \/ OpCall
    \/ OpClosure
    \/ OpCloseUpvalue
    \/ OpReturn
    \/ OpClass
    \/ Collect
    \/ CollectAgain

CycleSpec == CycleInit /\ [][CycleNext]_vars

\* The objects an object refers to directly
Refers(h, o) ==
    CASE h[o].type = "OBJ_CLOSURE" -> Range(h[o].upvalues)
      [] h[o].type = "OBJ_UPVALUE" -> {ObjOf(h[o].closed)}
      [] h[o].type = "OBJ_INSTANCE" -> {ObjOf(e.value) : e \in Range(h[o].fields.entries)}
      [] OTHER -> {}

\* o is on a cycle of one or two references
OnCycle(h, o) == o \in Refers(h, o) \/ \E x \in Refers(h, o) \ {0} : o \in Refers(h, x)

\* C32: the mark phase ends on every object graph, cycles included: within
\* one collection an object is marked and pushed on the gray stack at most
\* once, and only if its mark bit was clear; when the collection has ended
\* the gray stack is empty and the mark bit of every object that is left is
\* clear, so that the next collection starts with all objects white.
C32_MarkPhaseTerminates ==
    /\ vm.grayStack = <<>>
    /\ \A o \in Range(vm.objects) : ~heap[o].isMarked
    /\ Collected =>
          LET marks == Events("mark") IN
          /\ \A i, j \in 1..Len(marks) : marks[i].o = marks[j].o => i = j
          /\ \A i \in 1..Len(marks) : ~Pre.heap[marks[i].o].isMarked
          /\ gclog.marked = {marks[i].o : i \in 1..Len(marks)}

\* A second collection in a row has marked an object that is on a cycle,
\* and has kept it
C32_Witness ==
    /\ pc = "collected again"
    /\ \E o \in gclog.marked : OnCycle(heap, o) /\ o \in Range(vm.objects)

\* C33: collectGarbage is never entered while a collection is in progress.
\* A collection starts only in a request of reallocate that grows a block;
\* marking (whose gray stack is no block of reallocate), the purge of the
\* intern table and the sweep make no such request.
C33_NoCollectionInsideCollection ==
    /\ fault # "collectGarbage in collectGarbage"
    /\ ~gclog.active
    /\ Collected =>
          /\ Len(gclog.by) = 2
          /\ gclog.by[2] > gclog.by[1]

\* An allocation has started a collection that has marked, purged a string
\* of the intern table and freed objects, and the collection has ended
C33_Witness ==
    /\ Collected
    /\ fault = ""
    /\ Events("mark") # <<>>
    /\ Events("purge") # <<>>
    /\ Events("free") # <<>>
    /\ gclog.by[2] > gclog.by[1]

(***************************************************************************)
(* Deep recursion.  A function with n locals calls itself from under t     *)
(* temporaries; run() is taken in steps that end with the instruction      *)
(* that pushes or discards a call frame, or that ends run().               *)
(***************************************************************************)
MaxTemporaries == 1

\* The i-th temporary: an operand that stays on the stack while the right
\* operand of a binary operator of the next higher precedence is evaluated;
\* every fourth one opens a group to start again from equality
Temporary(i) ==
    Num(<<49>>)
    \o K(<<"TOKEN_EQUAL_EQUAL", "TOKEN_LESS", "TOKEN_PLUS", "TOKEN_STAR">>[((i - 1) % 4) + 1])
    \o (IF i % 4 = 0 THEN LP ELSE <<>>)

RECURSIVE Temporaries(_, _)
Temporaries(i, t) == IF i > t THEN <<>> ELSE Temporary(i) \o Temporaries(i + 1, t)

\* { var aa; var ab; ... 1 == 1 < 1 + 1 * (1 == ... inner ...); }
\* with n declarations, t temporaries, and f() or 1 as inner
SrcFrame(n, t, again) ==
    LB
    \o SubSeq(SrcLocals(n), 2, 3 * n + 1)
    \o Temporaries(1, t)
    \o (IF again THEN Id(<<102>>) \o LP \o RP ELSE Num(<<49>>))
    \o SeqOf([i \in 1..(t \div 4) |-> Token("TOKEN_RIGHT_PAREN", <<>>)])
    \o SEMI \o RB

\* fun f() <block> <block>: the script and every call of f hold n locals
\* and t temporaries
SrcFrames(n, t, again) ==
    FUN \o Id(<<102>>) \o LP \o RP \o SrcFrame(n, t, again) \o SrcFrame(n, t, TRUE)

DeepSessions ==
    {<<SrcFrames(UINT8_COUNT - 1, 0, TRUE)>>,
     <<SrcFrames(UINT8_COUNT - 1, MaxTemporaries, TRUE)>>,
     <<SrcFrames(1, MaxTemporaries, FALSE)>>}

DeepInit == InitWith(DeepSessions)

\* One case of the switch of run(), from the world before
\* instruction = READ_BYTE(), for the instructions that the chunks of
\* DeepSessions hold
runCase(W) ==
    LET F == SkipBytes(W, 1)
        instruction == PeekByte(W)
    IN  CASE instruction = OP_CONSTANT -> push(SkipBytes(F, 1), PeekConstant(F))
          [] instruction = OP_NIL -> push(F, NIL_VAL)
          [] instruction = OP_POP -> pop(F)
          [] instruction = OP_GET_GLOBAL ->
                LET name == AS_OBJ(PeekConstant(F))
                    value == tableGet(F.heap, F.vm.globals, name)
                IN  IF ~value.found
                    THEN Fail(SkipBytes(F, 1), "Undefined variable '" \o FormatS(F.heap[name].chars) \o "'.")
                    ELSE push(SkipBytes(F, 1), value.value)
          [] instruction = OP_DEFINE_GLOBAL ->
                pop(Call("tableSet", SkipBytes(F, 1), <<GlobalsLoc, AS_OBJ(PeekConstant(F)), peek(F, 0)>>))
          [] instruction = OP_EQUAL ->
                push(pop(pop(F)), BOOL_VAL(valuesEqual(peek(F, 1), peek(F, 0))))
          [] instruction = OP_LESS ->
                BINARY_OP(F, BOOL_VAL(AS_NUMBER(peek(F, 1)) < AS_NUMBER(peek(F, 0))))
          [] instruction = OP_ADD ->
                LET b == peek(F, 0)
                    a == peek(F, 1)
                IN  IF IsObjType(F.heap, b, "OBJ_STRING") /\ IsObjType(F.heap, a, "OBJ_STRING")
                    THEN Call("concatenate", F, <<>>)
                    ELSE IF IS_NUMBER(b) /\ IS_NUMBER(a)
                    THEN push(pop(pop(F)), NUMBER_VAL(AS_NUMBER(a) + AS_NUMBER(b)))
                    ELSE Fail(F, "Operands must be two numbers or two strings.")
          [] instruction = OP_MULTIPLY ->
                BINARY_OP(F, NUMBER_VAL(AS_NUMBER(peek(F, 1)) * AS_NUMBER(peek(F, 0))))
          [] instruction = OP_CALL -> callOperand(F)
          [] instruction = OP_CLOSURE ->
                LET W1 == Call("newClosure", SkipBytes(F, 1), <<AS_OBJ(PeekConstant(F))>>)
                IN  Call("captureLoop", push(W1, OBJ_VAL(W1.ret)), <<W1.ret, 1>>)
          [] instruction = OP_RETURN ->
                LET value == peek(F, 0)
                    slots == Frame(F).slots
                    W1 == Call("closeUpvalues", pop(F), <<slots>>)
                    W2 == [W1 EXCEPT !.vm.frames = Take(@, Len(@) - 1)]
                IN  IF Len(W2.vm.frames) = 0 THEN [pop(W2) EXCEPT !.res = "INTERPRET_OK"]
                    ELSE push([W2 EXCEPT !.vm.stackTop = slots], value)

\* run() has returned, or has left the frame it was in
Left(W, frameCount) == W.res # "" \/ W.fault # "" \/ Len(W.vm.frames) # frameCount

\* At most n turns of the loop of run(), up to the turn that leaves the frame
RECURSIVE runFrame(_, _, _)
runFrame(W, frameCount, n) ==
    IF Left(W, frameCount) THEN W
    ELSE IF n = 1 THEN runCase(W)
    ELSE LET W1 == runFrame(W, frameCount, n \div 2)
         IN  <<W1, runFrame(W1, frameCount, n - (n \div 2))>>[2]

\* The chunks have no jumps: a frame is left after at most as many turns as
\* its chunk has bytes
RunFrame ==
    /\ pc = "run"
    /\ \E g \in GcPoints :
          LET W == World(g)
          IN  Finish(runFrame(W, Len(W.vm.frames), Len(FrameChunk(W).code)))

DeepNext == Interpret \/ CompileDeclaration \/ CompileEnd \/ RunFrame

DeepSpec == DeepInit /\ [][DeepNext]_vars

\* C34: in every reachable state of a program that compiles, stackTop is
\* within the value stack, 0 <= stackTop - stack <= STACK_MAX: push never
\* writes past the end of the array and pop never moves below its start.
C34_StackTopWithinStack ==
    /\ fault # "write past the end of the stack"
    /\ 0 <= vm.stackTop
    /\ vm.stackTop <= STACK_MAX

(***************************************************************************)
(* Statements on every control path: both branches of if, the loop and the *)
(* exit of while and for, and the operand that and / or skip or evaluate.  *)
(***************************************************************************)
\* { var a = 1; if (a > 0) print 1; else print 2; if (a < 0) print 3; else print 4;
\*   if (a < 0) print 5; while (a < 3) a = a + 1;
\*   for (var j = 0; j < 2; j = j + 1) { var k = j; print k; }
\*   a and nil; nil and a; a or nil; nil or a; print a; }
SrcPaths ==
    LB \o VAR \o Id(<<97>>) \o EQ \o Num(<<49>>) \o SEMI
    \o K("TOKEN_IF") \o LP \o Id(<<97>>) \o K("TOKEN_GREATER") \o Num(<<48>>) \o RP
    \o PRINT \o Num(<<49>>) \o SEMI \o K("TOKEN_ELSE") \o PRINT \o Num(<<50>>) \o SEMI
    \o K("TOKEN_IF") \o LP \o Id(<<97>>) \o K("TOKEN_LESS") \o Num(<<48>>) \o RP
    \o PRINT \o Num(<<51>>) \o SEMI \o K("TOKEN_ELSE") \o PRINT \o Num(<<52>>) \o SEMI
    \o K("TOKEN_IF") \o LP \o Id(<<97>>) \o K("TOKEN_LESS") \o Num(<<48>>) \o RP
    \o PRINT \o Num(<<53>>) \o SEMI
    \o K("TOKEN_WHILE") \o LP \o Id(<<97>>) \o K("TOKEN_LESS") \o Num(<<51>>) \o RP
    \o Id(<<97>>) \o EQ \o Id(<<97>>) \o K("TOKEN_PLUS") \o Num(<<49>>) \o SEMI
    \o K("TOKEN_FOR") \o LP \o VAR \o Id(<<106>>) \o EQ \o Num(<<48>>) \o SEMI
    \o Id(<<106>>) \o K("TOKEN_LESS") \o Num(<<50>>) \o SEMI
    \o Id(<<106>>) \o EQ \o Id(<<106>>) \o K("TOKEN_PLUS") \o Num(<<49>>) \o RP
    \o LB \o VAR \o Id(<<107>>) \o EQ \o Id(<<106>>) \o SEMI \o PRINT \o Id(<<107>>) \o SEMI \o RB
    \o Id(<<97>>) \o K("TOKEN_AND") \o K("TOKEN_NIL") \o SEMI
    \o K("TOKEN_NIL") \o K("TOKEN_AND") \o Id(<<97>>) \o SEMI
    \o Id(<<97>>) \o K("TOKEN_OR") \o K("TOKEN_NIL") \o SEMI
    \o K("TOKEN_NIL") \o K("TOKEN_OR") \o Id(<<97>>) \o SEMI
    \o PRINT \o Id(<<97>>) \o SEMI \o RB

StatementSessions == {<<SrcPaths>>, <<SrcFlow>>}

StatementInit ==
    /\ input \in StatementSessions
    /\ InitAs(Call("initVM", BlankWorld, <<>>))
    /\ pc = "idle"
    /\ result = "NONE"
    /\ runs = 0
    /\ probe = NoScopes

StatementNext ==
    \/ Interpret
    \/ BlockBegin
    \/ ScopeDeclaration
    \/ BlockEnd
    \/ CompileEnd
    \/ OpConstant
    \/ OpNil
    \/ OpTrue
    \/ OpFalse
    \/ OpPop
    \/ OpGetLocal
    \/ OpSetLocal
    \/ OpGetGlobal
    \/ OpDefineGlobal
    \/ OpSetGlobal
    \/ OpEqual
    \/ OpGreater
    \/ OpLess
    \/ OpAdd
    \/ OpSubtract
    \/ OpMultiply
    \/ OpNot
    \/ OpNegate
    \/ OpPrint
    \/ OpJump
    \/ OpJumpIfFalse
    \/ OpLoop
    \/ OpReturn

StatementSpec == StatementInit /\ [][StatementNext]_vars

\* What a declaration adds to the locals in scope: a variable, function or
\* class declared inside a block is a local
Raise(s) ==
    IF s.type \in {"TOKEN_VAR", "TOKEN_FUN", "TOKEN_CLASS"} /\ s.depth > 0 THEN 1 ELSE 0

\* The height of the window of the script
Height == vm.stackTop - vm.frames[1].slots

\* C35: the bytecode of a complete statement (expression statement, print,
\* if, while, for, block) leaves the stack as high as it found it, on every
\* control path that leads from its first byte to the byte after it; the
\* declaration of a local variable leaves it higher by exactly one.
C35_StatementsKeepHeight ==
    \A s \in probe.statements :
        /\ s.to.locals = s.from.locals + Raise(s)
        /\ AtMark(s.from) => Height = s.from.locals
        /\ AtMark(s.to) => Height = s.from.locals + Raise(s)

\* The script has taken both branches of an if, has left a while and a for
\* after two turns each, and has skipped and evaluated the right operand of
\* and and of or
C35_Witness ==
    /\ Returned
    /\ scanner.source = SrcPaths
    /\ result = "INTERPRET_OK"
    /\ out = <<<<49>>, <<52>>, <<48>>, <<49>>, <<51>>>>
    /\ {s.type : s \in probe.statements} =
          {"TOKEN_VAR", "TOKEN_IF", "TOKEN_WHILE", "TOKEN_FOR", "TOKEN_IDENTIFIER",
           "TOKEN_NIL", "TOKEN_PRINT", "TOKEN_LEFT_BRACE"}

(***************************************************************************)
(* The table functions on their own: any sequence of tableSet, tableGet,   *)
(* tableDelete and tableAddAll on the method table of a class.  The keys   *)
(* are interned strings that the stack holds, as the callers of the table  *)
(* functions have them; probe holds the last call and the finite map that  *)
(* the calls so far make.                                                  *)
(***************************************************************************)
\* "a", "i", "q": the keys of the calls.  Their hashes end in 12, 4, 12:
\* one home bucket in a table of 8 buckets, two in a table of 16
ActiveNames == <<<<97>>, <<105>>, <<113>>>>

\* "b", "c", "e", "g": keys that only tableAddAll brings; "b" has the home
\* bucket after the one of "a"
PassiveNames == <<<<98>>, <<99>>, <<101>>, <<103>>>>

KeyNames == ActiveNames \o PassiveNames

\* What the calls store
SetValues == {NIL_VAL, NUMBER_VAL(1)}

RECURSIVE tableAddAllFrom(_, _, _, _)
\* The loop of tableAddAll from bucket i of from
tableAddAllFrom(W, from, to, i) ==
    IF i >= GetTable(W, from).capacity THEN W
    ELSE LET entry == GetTable(W, from).entries[i + 1]
             W1 == IF entry.key # 0 THEN Call("tableSet", W, <<to, entry.key, entry.value>>) ELSE W
         IN  <<W1, tableAddAllFrom(W1, from, to, i + 1)>>[2]

tableAddAll(W, from, to) == tableAddAllFrom(W, from, to, 0)

RECURSIVE internAll(_, _)
\* push(OBJ_VAL(copyString(name))) for each name
internAll(W, names) ==
    IF names = <<>> THEN W
    ELSE LET W1 == Call("copyString", W, <<Head(names)>>)
         IN  internAll(push(W1, OBJ_VAL(W1.ret)), Tail(names))

\* push(OBJ_VAL(newClass(name))), with the string in slot 0 as name
pushClass(W) ==
    LET W1 == Call("newClass", W, <<AS_OBJ(StackRead(W, 0))>>)
    IN  push(W1, OBJ_VAL(W1.ret))

RECURSIVE setAll(_, _, _, _)
\* tableSet(table, key, value) for each key
setAll(W, loc, keys, value) ==
    IF keys = <<>> THEN W
    ELSE setAll(Call("tableSet", W, <<loc, Head(keys), value>>), loc, Tail(keys), value)

\* The VM after initVM() with the keys and two classes on the stack
TableStack == pushClass(pushClass(internAll(Call("initVM", BlankWorld, <<>>), KeyNames)))

KeysOf(W) == [i \in 1..Len(KeyNames) |-> AS_OBJ(StackRead(W, i - 1))]

\* The method table of the n-th class on the stack
ClassLoc(W, n) == MethodsLoc(AS_OBJ(StackRead(W, Len(KeyNames) + n - 1)))

\* tableDelete(table, key) on the table at loc
deleteAt(W, loc, key) == PutTable(W, loc, tableDelete(W.heap, GetTable(W, loc), key).table)

\* The table at loc holds every key with the value 2, and then "i" is
\* deleted from it
loadTable(W, loc, keys) == deleteAt(setAll(W, loc, keys, NUMBER_VAL(2)), loc, keys[2])

\* The second class has its table loaded: the table that tableAddAll copies
loadSecond(W) == loadTable(W, ClassLoc(W, 2), KeysOf(W))

TableWorld == loadSecond(TableStack)

\* No value: the key is not in the map
Absent == [t |-> "absent", v |-> 0]

\* probe at the start: the keys, the table of the calls (to) with its map,
\* and the table that tableAddAll copies (from) with its map
TableProbe(W) ==
    [f |-> "none", key |-> 0, ret |-> 0, value |-> NIL_VAL, was |-> FALSE,
     keys |-> KeysOf(W),
     to |-> ClassLoc(W, 1),
     from |-> ClassLoc(W, 2),
     map |-> [k \in Range(KeysOf(W)) |-> Absent],
     fromMap |-> [k \in Range(KeysOf(W)) |-> IF k = KeysOf(W)[2] THEN Absent ELSE NUMBER_VAL(2)]]

Started(W) == InitAs(W) /\ probe = TableProbe(W)

TableInit ==
    /\ Started(TableWorld)
    /\ pc = "idle"
    /\ result = "NONE"
    /\ runs = 0
    /\ input = <<>>

Keys == Range(probe.keys)

ActiveKeys == {probe.keys[i] : i \in 1..Len(ActiveNames)}

ToLoc == probe.to

FromLoc == probe.from

FromMap == probe.fromMap

\* The call f of key has returned ret (and value), in the world W
Called(W, f, key, ret, value, map) ==
    /\ Commit(W, "idle")
    /\ probe' = [probe EXCEPT !.f = f, !.key = key, !.ret = ret, !.value = value,
                              !.was = key # 0 /\ probe.map[key] # Absent, !.map = map]

\* tableSet makes one growing request, the ALLOCATE of adjustCapacity
TableSet ==
    /\ \E key \in ActiveKeys, value \in SetValues, g \in {0, 1} :
          LET W == Call("tableSet", World(g), <<ToLoc, key, value>>)
          IN  Called(W, "tableSet", key, W.ret, value, [probe.map EXCEPT ![key] = value])
    /\ UNCHANGED <<result, runs, input>>

TableGet ==
    /\ \E key \in ActiveKeys :
          LET r == tableGet(heap, GetTable(World(0), ToLoc), key)
          IN  Called(World(0), "tableGet", key, IF r.found THEN 1 ELSE 0, r.value, probe.map)
    /\ UNCHANGED <<result, runs, input>>

TableDelete ==
    /\ \E key \in ActiveKeys :
          LET r == tableDelete(heap, GetTable(World(0), ToLoc), key)
          IN  Called(PutTable(World(0), ToLoc, r.table), "tableDelete", key,
                     IF r.deleted THEN 1 ELSE 0, NIL_VAL, [probe.map EXCEPT ![key] = Absent])
    /\ UNCHANGED <<result, runs, input>>

TableAddAll ==
    /\ \E g \in GcPoints :
          Called(tableAddAll(World(g), FromLoc, ToLoc), "tableAddAll", 0, 0, NIL_VAL,
                 [k \in Keys |-> IF FromMap[k] # Absent THEN FromMap[k] ELSE probe.map[k]])
    /\ UNCHANGED <<result, runs, input>>

TableNext == TableSet \/ TableGet \/ TableDelete \/ TableAddAll

TableSpec == TableInit /\ [][TableNext]_vars

\* What tableGet finds for key in the table at loc
Lookup(loc, key) ==
    LET r == tableGet(heap, GetTable(World(0), loc), key)
    IN  IF r.found THEN r.value ELSE Absent

\* C36: after any sequence of tableSet, tableGet, tableDelete and
\* tableAddAll calls, across growth and the reuse of tombstones, a table is
\* a finite map: tableGet finds for every key the value of the last set of
\* that key, or nothing when the key was deleted since or never set; the
\* delete of one key hides and changes no other key; tableSet returns true
\* exactly when the key was not in the table, and tableDelete exactly when
\* it was.
C36_TableIsFiniteMap ==
    /\ fault = ""
    /\ \A k \in Keys : Lookup(ToLoc, k) = probe.map[k] /\ Lookup(FromLoc, k) = FromMap[k]
    /\ probe.f = "tableSet" => (probe.ret = 1 <=> ~probe.was)
    /\ probe.f = "tableDelete" => (probe.ret = 1 <=> probe.was)
    /\ probe.f = "tableGet" =>
          /\ probe.ret = 1 <=> probe.was
          /\ probe.was => probe.value = probe.map[probe.key]

\* "q" has been set again in the tombstone of "a", before "i" that has the
\* same home bucket, after the table has grown in tableAddAll
C36_Witness ==
    LET table == GetTable(World(0), ToLoc)
        a == probe.keys[1]
        i == probe.keys[2]
        q == probe.keys[3]
    IN  /\ probe.f = "tableSet"
        /\ probe.key = q
        /\ table.capacity = 16
        /\ probe.map[a] = Absent
        /\ probe.map[i] = NIL_VAL
        /\ table.entries[13].key = q
        /\ \E n \in 1..16 : table.entries[n] = Tombstone

(***************************************************************************)
(* The tables of the interpreter: the globals, the intern table, and the   *)
(* tables that the objects of the heap own.                                *)
(***************************************************************************)
Tables ==
    {vm.globals, vm.strings}
    \cup {heap[o].methods : o \in {o \in 1..Len(heap) : heap[o].type = "OBJ_CLASS"}}
    \cup {heap[o].fields : o \in {o \in 1..Len(heap) : heap[o].type = "OBJ_INSTANCE"}}

Strings == {o \in 1..Len(heap) : heap[o].type = "OBJ_STRING"}

\* The buckets of the table that hold a key or a tombstone
Used(table) == {n \in 1..Len(table.entries) : table.entries[n] # EmptyEntry}

PowerOfTwo(n) == \E e \in 0..16 : n = 2 ^ e

\* C37: in every table with a capacity above 0, the buckets that hold a key
\* or a tombstone are at most count, count is at most three quarters of the
\* capacity, and the capacity is a power of two; so the table has a bucket
\* that is empty, and the probe loops of findEntry and of tableFindString
\* end for every string, after the inserts, deletes and purges of the
\* intern table that the programs and the collections make.
C37_ProbeFindsEmptyBucket ==
    \A table \in Tables :
        table.capacity > 0 =>
            /\ Len(table.entries) = table.capacity
            /\ Cardinality(Used(table)) <= table.count
            /\ 4 * table.count <= 3 * table.capacity
            /\ PowerOfTwo(table.capacity)
            /\ \E n \in 1..table.capacity : table.entries[n] = EmptyEntry
            /\ \A s \in Strings :
                  /\ findEntry(heap, table.entries, table.capacity, s) # -1
                  /\ table = vm.strings =>
                        tableFindString(heap, table, heap[s].chars, heap[s].hash) # -1

\* The intern table has grown to 16 buckets and a purge has left a
\* tombstone in it that count still counts
C37_Witness ==
    /\ fault = ""
    /\ vm.strings.capacity = 16
    /\ \E n \in 1..16 : vm.strings.entries[n] = Tombstone
    /\ Cardinality(Used(vm.strings)) = vm.strings.count
    /\ vm.strings.count > 6

(***************************************************************************)
(* compile() on every token stream of up to MaxTokens tokens, and on some  *)
(* longer ones that have errors inside functions and blocks.  The loop of  *)
(* compile() and the loops of the blocks of the script are taken turn by   *)
(* turn, as in ScopeSpec.                                                  *)
(***************************************************************************)
MaxTokens == 3

\* { } ; fun var a = ( ) print and a character that is no token
ParseTokens ==
    Range(LB \o RB \o SEMI \o FUN \o VAR \o Id(<<97>>) \o EQ \o LP \o RP \o PRINT
          \o K("TOKEN_ERROR"))

Streams == UNION {[1..n -> ParseTokens] : n \in 0..MaxTokens}

\* fun a ( a ) { { var a = ; } print @ a
SrcBadFunction ==
    FUN \o Id(<<97>>) \o LP \o Id(<<97>>) \o RP \o LB \o LB \o VAR \o Id(<<97>>) \o EQ \o SEMI
    \o RB \o PRINT \o K("TOKEN_ERROR") \o Id(<<97>>)

\* { fun a ( ) { fun a ( = } ; { a = } a ; } }
SrcBadNesting ==
    LB \o FUN \o Id(<<97>>) \o LP \o RP \o LB \o FUN \o Id(<<97>>) \o LP \o EQ \o RB \o SEMI
    \o LB \o Id(<<97>>) \o EQ \o RB \o Id(<<97>>) \o SEMI \o RB \o RB

ParseSessions == {<<source>> : source \in Streams \cup {SrcBadFunction, SrcBadNesting}}

ParseInit ==
    /\ input \in ParseSessions
    /\ InitAs(Call("initVM", BlankWorld, <<>>))
    /\ pc = "idle"
    /\ result = "NONE"
    /\ runs = 0
    /\ probe = NoScopes

ParseNext == Interpret \/ BlockBegin \/ ScopeDeclaration \/ BlockEnd \/ CompileEnd

ParseSpec == ParseInit /\ [][ParseNext]_vars

\* compile() is in its loop or in the loop of a block of the script
Compiling == pc \in {"compile", "block"}

\* The tokens that the parser has not consumed: the current one and those
\* that the scanner has not cut, the end of the input not counted
Remaining ==
    Len(scanner.source) + 1 - scanner.pos + (IF parser.current.type = "TOKEN_EOF" THEN 0 ELSE 1)

\* The turns that the loops can still take: no more than two for each token
\* and one for each open block of the script
Turns == 2 * Remaining + Len(probe.open)

\* The step of a turn of the loops: it consumes a token, or it is at the end
\* of the input and leaves a block or compile()
C38_Step ==
    Compiling =>
        /\ \/ Remaining' < Remaining
           \/ /\ parser.current.type = "TOKEN_EOF"
              /\ Remaining' = Remaining
              /\ ~Compiling' \/ Len(probe'.open) < Len(probe.open)
        /\ Compiling' => Turns' < Turns

\* At the end of the input scanToken() returns TOKEN_EOF, again and again
C38_Eof ==
    scanner.pos > Len(scanner.source) =>
        /\ scanToken(World(0)).parser.current = EofToken
        /\ scanToken(scanToken(World(0))) = scanToken(World(0))

\* C38: compile() ends on every finite token stream, with errors or not:
\* every turn of the loop of compile() and of block() consumes at least one
\* token, synchronize() included, or is at the end of the input, where the
\* scanner keeps returning TOKEN_EOF; the number of turns left, which is
\* never negative, goes down with every turn.
C38_CompileTerminates ==
    /\ [][C38_Step]_vars
    /\ [](C38_Eof /\ Turns >= 0)

\* compile() has returned with errors for a stream that ends inside a block
\* of a function, after synchronize() has skipped tokens
C38_Witness ==
    /\ runs > 0
    /\ pc = "idle"
    /\ result = "INTERPRET_COMPILE_ERROR"
    /\ scanner.source = SrcBadFunction
    /\ scanner.pos > Len(scanner.source)
    /\ parser.current.type = "TOKEN_EOF"
    /\ Len(err) > 1

\* The chain of compilers from current along enclosing, outermost first, is
\* as the nesting of the functions: the compiler of the script, then those
\* of functions, each with a function object of its own that is allocated
Nested(h, chain) ==
    /\ \A i \in 1..Len(chain) :
          /\ h[chain[i].function].type = "OBJ_FUNCTION"
          /\ chain[i].type = "TYPE_SCRIPT" <=> i = 1
    /\ \A i, j \in 1..Len(chain) : chain[i].function = chain[j].function => i = j

\* A turn of the loops of the script leaves the compiler of the script as
\* the current one: the compilers that the turn has opened are closed
C39_Step ==
    (Compiling /\ Compiling') => current' # <<>> /\ current'[1].function = current[1].function

C39_Chain ==
    /\ Nested(heap, current)
    /\ Compiling => Len(current) = 1
    /\ pc \in {"idle", "run"} => current = <<>>
    /\ Collected =>
          /\ Nested(Pre.heap, Pre.current)
          /\ \A i \in 1..Len(Pre.current) : Pre.current[i].function \in gclog.marked

\* C39: the chain of compilers is a stack that is as the nesting of the
\* functions being compiled: every initCompiler() is matched by one
\* endCompiler(), with compile errors too, so that between the declarations
\* of the script only its own compiler is open and the chain is empty
\* (current is NULL) when compile() has returned; a collection that
\* markCompilerRoots() takes part in finds in the chain only compilers that
\* are open, with their functions allocated.
C39_CompilerChainIsStack == [][C39_Step]_vars /\ []C39_Chain

\* A turn of the loop of compile() has ended with errors reported, and a
\* collection in it has found the compilers of the script and of two nested
\* functions
C39_Witness ==
    /\ Collected
    /\ Len(Pre.current) = 3
    /\ parser.hadError
    /\ Compiling
    /\ Len(current) = 1

====
